---- MODULE Spec2Model ----
(***************************************************************************)
(* Feeding schedule and inventory engine of the reptile tracker web app:   *)
(* the reminder store, the due-feeding scanner, the inventory ledger, the  *)
(* feeding request handlers and the reminder scheduler, modelled from      *)
(* web-app/reptile_tracker_db.py, web-app/app.py and web-app/scheduler.py. *)
(***************************************************************************)
EXTENDS Integers, Sequences, FiniteSets, TLC

(***************************************************************************)
(* Bounds of the model.                                                    *)
(***************************************************************************)
\* days the clock may advance past StartDate
MaxDays == 1
\* rows the feeding_logs table may ever receive
MaxLogs == 1
\* rows the feeding_reminders table may ever receive
MaxReminderRows == 1
\* largest feeding interval a request submits
MaxInterval == 2
\* rows the reptiles table may ever receive
MaxReptiles == 1
\* largest days_ahead a scan is asked for
MaxAhead == 2
\* largest quantity on hand the ledger may reach
MaxStock == 2
\* rows the inventory_transactions table may ever receive
MaxTx == 2
\* rows the food_inventory table may ever receive
MaxSkus == 1
\* request threads handling a feeding at the same time
MaxThreads == 2
\* animals with a reminder when the scheduler is watched
MaxAnimals == 2

(***************************************************************************)
(* Calendar: datetime.strptime / timedelta / strftime('%Y-%m-%d').         *)
(* A date string is a record; fmt tells which layout the text has.         *)
(***************************************************************************)
IsLeap(y) == (y % 4 = 0 /\ y % 100 # 0) \/ y % 400 = 0

DaysInMonth(y, m) ==
    IF m = 2 THEN (IF IsLeap(y) THEN 29 ELSE 28)
    ELSE IF m \in {4, 6, 9, 11} THEN 30 ELSE 31

DaysInYear(y) == IF IsLeap(y) THEN 366 ELSE 365

\* the years the model's dates fall in
Years == 2024..2025

ValidDate(y, m, d) ==
    /\ y \in Years
    /\ m \in 1..12
    /\ d >= 1
    /\ d <= DaysInMonth(y, m)

RECURSIVE DaysBeforeMonth(_, _)
DaysBeforeMonth(y, m) ==
    IF m <= 1 THEN 0 ELSE DaysBeforeMonth(y, m - 1) + DaysInMonth(y, m - 1)

\* days before 1 January of year y (ordinal 1 = 0001-01-01, as date.toordinal)
DaysBeforeYear(y) ==
    (y - 1) * 365 + ((y - 1) \div 4) - ((y - 1) \div 100) + ((y - 1) \div 400)

\* the day number of a calendar date
ToOrdinal(y, m, d) == DaysBeforeYear(y) + DaysBeforeMonth(y, m) + d

YearOf(n) ==
    CHOOSE y \in Years : DaysBeforeYear(y) < n /\ n <= DaysBeforeYear(y) + DaysInYear(y)

RECURSIVE MonthOf(_, _, _)
MonthOf(n, y, m) ==
    IF n <= DaysInMonth(y, m) THEN m ELSE MonthOf(n - DaysInMonth(y, m), y, m + 1)

NULL == [fmt |-> "null", a |-> 0, b |-> 0, c |-> 0]
Ymd(y, m, d) == [fmt |-> "ymd", a |-> y, b |-> m, c |-> d]
YmdHms(y, m, d) == [fmt |-> "ymd_hms", a |-> y, b |-> m, c |-> d]
Slash(p, q, y) == [fmt |-> "slash", a |-> p, b |-> q, c |-> y]
BadDate == [fmt |-> "bad", a |-> 0, b |-> 0, c |-> 0]

\* strftime('%Y-%m-%d') of the day with ordinal n
StrfDate(n) ==
    LET y == YearOf(n)
        r == n - DaysBeforeYear(y)
        m == MonthOf(r, y, 1)
    IN  Ymd(y, m, r - DaysBeforeMonth(y, m))

\* the day a stored '%Y-%m-%d' string denotes
DateOrd(s) == ToOrdinal(s.a, s.b, s.c)

\* datetime.now().strftime('%Y-%m-%d')
get_current_date(nowOrd) == StrfDate(nowOrd)

\* text order of two stored date strings, as SQLite compares TEXT columns:
\* zero-padded YYYY-MM-DD strings order like (year, month, day)
StrLess(s, t) ==
    \/ s.a < t.a
    \/ s.a = t.a /\ s.b < t.b
    \/ s.a = t.a /\ s.b = t.b /\ s.c < t.c

StrLeq(s, t) == s = t \/ StrLess(s, t)

\* the loop over the four strptime formats of update_feeding_reminder_dates;
\* when none parses the code falls back to datetime.now()
ParseFeedingDate(s, nowOrd) ==
    CASE s.fmt \in {"ymd_hms", "ymd"} ->
            IF ValidDate(s.a, s.b, s.c) THEN ToOrdinal(s.a, s.b, s.c) ELSE nowOrd
      [] s.fmt = "slash" ->
            IF ValidDate(s.c, s.b, s.a) THEN ToOrdinal(s.c, s.b, s.a)
            ELSE IF ValidDate(s.c, s.a, s.b) THEN ToOrdinal(s.c, s.a, s.b)
            ELSE nowOrd
      [] OTHER -> nowOrd


(***************************************************************************)
(* State: the tables of the SQLite database and the wall clock.            *)
(***************************************************************************)
VARIABLES
    reptiles,               \* ids of the rows of table reptiles
    feeding_reminders,      \* rows of table feeding_reminders, in rowid order
    feeding_logs,           \* rows of table feeding_logs, in rowid order
    food_inventory,         \* rows of table food_inventory, in rowid order
    inventory_transactions, \* rows of table inventory_transactions, in rowid order
    sqlite_sequence,        \* AUTOINCREMENT counters, one per table
    now,                    \* the current day (ordinal) of datetime.now()
    notification_settings,  \* the row of table notification_settings, or NoSettings
    requests,               \* per request thread: where its log_feeding stands
    scheduler,              \* the frame of check_and_send_reminders
    outbox                  \* sends the scheduler made in its current run

tables == <<reptiles, feeding_reminders, feeding_logs, food_inventory,
            inventory_transactions, sqlite_sequence>>

\* what the request handlers handled start to end leave alone
others == <<notification_settings, requests, scheduler, outbox>>

StartDate == Ymd(2024, 2, 28)

\* SQL NULL / Python None for integer and text columns
None == 0
NoText == "NULL"

SeqToSet(rows) == {rows[i] : i \in 1..Len(rows)}

(***************************************************************************)
(* Reminder store: ReptileDatabase, FEEDING REMINDER OPERATIONS            *)
(***************************************************************************)
NewReminder(id, reptile_id, feeding_interval_days) ==
    [id |-> id, reptile_id |-> reptile_id,
     feeding_interval_days |-> feeding_interval_days,
     food_type |-> NoText, food_size |-> NoText, quantity_per_feeding |-> 1,
     last_fed_date |-> NULL, next_feeding_date |-> NULL, is_active |-> TRUE]

\* add_feeding_reminder: update every row of the reptile when one exists,
\* insert a fresh row (dates NULL, active) otherwise
add_feeding_reminder(rems, newId, reptile_id, feeding_interval_days) ==
    IF \E i \in 1..Len(rems) : rems[i].reptile_id = reptile_id
    THEN [i \in 1..Len(rems) |->
            IF rems[i].reptile_id = reptile_id
            THEN [rems[i] EXCEPT !.feeding_interval_days = feeding_interval_days,
                                 !.is_active = TRUE]
            ELSE rems[i]]
    ELSE Append(rems, NewReminder(newId, reptile_id, feeding_interval_days))

\* whether add_feeding_reminder takes its INSERT branch
InsertsReminder(rems, reptile_id) ==
    ~ \E i \in 1..Len(rems) : rems[i].reptile_id = reptile_id

\* mutant: the interval counted inclusive of the feeding day
NextFeedingOrdInclusive(lastFedOrd, feeding_interval_days) ==
    lastFedOrd + feeding_interval_days - 1

\* last_fed + timedelta(days=feeding_interval_days), as a day ordinal
NextFeedingOrd(lastFedOrd, feeding_interval_days) == lastFedOrd + feeding_interval_days

\* the SELECT of update_feeding_reminder_dates: the reptile's active rows
ActiveReminderRows(rems, reptile_id) ==
    {i \in 1..Len(rems) : rems[i].reptile_id = reptile_id /\ rems[i].is_active}

\* fetchone() on that SELECT: the interval of the first active row
SelectedInterval(rems, reptile_id) ==
    LET act == ActiveReminderRows(rems, reptile_id)
    IN  rems[CHOOSE i \in act : \A j \in act : i <= j].feeding_interval_days

\* the UPDATE of update_feeding_reminder_dates: parses the date, adds the
\* interval and writes both dates on every row of the reptile
write_reminder_dates(rems, reptile_id, last_fed_date, feeding_interval_days, nowOrd) ==
    LET last_fed == ParseFeedingDate(last_fed_date, nowOrd)
        next_feeding == NextFeedingOrd(last_fed, feeding_interval_days)
    IN  [i \in 1..Len(rems) |->
            IF rems[i].reptile_id = reptile_id
            THEN [rems[i] EXCEPT !.last_fed_date = StrfDate(last_fed),
                                 !.next_feeding_date = StrfDate(next_feeding)]
            ELSE rems[i]]

\* mutant: the SELECT without is_active = 1, so a feeding moves the dates of
\* a deactivated reminder too
update_feeding_reminder_dates_any(rems, reptile_id, last_fed_date, nowOrd) ==
    LET mine == {i \in 1..Len(rems) : rems[i].reptile_id = reptile_id}
    IN  IF mine = {} THEN rems
        ELSE write_reminder_dates(rems, reptile_id, last_fed_date,
                 rems[CHOOSE i \in mine : \A j \in mine : i <= j].feeding_interval_days,
                 nowOrd)

\* update_feeding_reminder_dates: nothing without an active row, else the
\* UPDATE with the interval the SELECT returned
update_feeding_reminder_dates(rems, reptile_id, last_fed_date, nowOrd) ==
    IF ActiveReminderRows(rems, reptile_id) = {} THEN rems
    ELSE write_reminder_dates(rems, reptile_id, last_fed_date,
                              SelectedInterval(rems, reptile_id), nowOrd)

\* toggle_feeding_reminder / the UPDATE of disable_feeding_reminder
toggle_feeding_reminder(rems, reptile_id, is_active) ==
    [i \in 1..Len(rems) |->
        IF rems[i].reptile_id = reptile_id
        THEN [rems[i] EXCEPT !.is_active = is_active]
        ELSE rems[i]]

(***************************************************************************)
(* Due-feeding scanner                                                     *)
(***************************************************************************)
\* rows sorted by next_feeding_date ascending (ORDER BY; ties in rowid order)
RECURSIVE SortByNext(_)
SortByNext(rows) ==
    IF Len(rows) = 0 THEN <<>>
    ELSE LET m == CHOOSE i \in 1..Len(rows) :
                    \A j \in 1..Len(rows) :
                        \/ StrLess(rows[i].next_feeding_date, rows[j].next_feeding_date)
                        \/ /\ rows[i].next_feeding_date = rows[j].next_feeding_date
                           /\ i <= j
             rest == [k \in 1..(Len(rows) - 1) |-> IF k < m THEN rows[k] ELSE rows[k + 1]]
         IN  <<rows[m]>> \o SortByNext(rest)

\* the JOIN with reptiles drops reminders whose reptile row is gone
Joined(rems, reps) == SelectSeq(rems, LAMBDA r : r.reptile_id \in reps)

OverdueFilter(r, today) ==
    /\ r.is_active
    /\ r.next_feeding_date # NULL
    /\ StrLeq(r.next_feeding_date, today)

\* mutant: the lower bound of the upcoming window not strict
UpcomingFilterInclusive(r, today, future_date) ==
    /\ r.is_active
    /\ r.next_feeding_date # NULL
    /\ StrLeq(today, r.next_feeding_date)
    /\ StrLeq(r.next_feeding_date, future_date)

UpcomingFilter(r, today, future_date) ==
    /\ r.is_active
    /\ r.next_feeding_date # NULL
    /\ StrLess(today, r.next_feeding_date)
    /\ StrLeq(r.next_feeding_date, future_date)

get_overdue_feedings(rems, reps, nowOrd) ==
    LET today == StrfDate(nowOrd)
    IN  SortByNext(SelectSeq(Joined(rems, reps), LAMBDA r : OverdueFilter(r, today)))

get_upcoming_feedings(rems, reps, nowOrd, days_ahead) ==
    LET today == StrfDate(nowOrd)
        future_date == StrfDate(nowOrd + days_ahead)
    IN  SortByNext(SelectSeq(Joined(rems, reps),
                             LAMBDA r : UpcomingFilter(r, today, future_date)))

(***************************************************************************)
(* Feeding logs                                                            *)
(***************************************************************************)
NewFeedingLog(id, reptile_id, feeding_date, inventory_id, quantity, ate) ==
    [id |-> id, reptile_id |-> reptile_id, feeding_date |-> feeding_date,
     inventory_id |-> inventory_id, quantity |-> quantity, ate |-> ate,
     auto_deducted |-> FALSE]

\* text order of the raw feeding_date strings (ORDER BY fl.feeding_date):
\* a key that orders like the characters of the string
DateTextKey(s) ==
    CASE s.fmt = "ymd"     -> <<s.a \div 100, 1, s.a, s.b, s.c, 0>>
      [] s.fmt = "ymd_hms" -> <<s.a \div 100, 1, s.a, s.b, s.c, 1>>
      [] s.fmt = "slash"   -> <<s.a, 0, s.b, s.c, 0, 0>>
      [] OTHER             -> <<100, 0, 0, 0, 0, 0>>

RECURSIVE KeyLess(_, _)
KeyLess(k1, k2) ==
    /\ Len(k1) > 0
    /\ \/ k1[1] < k2[1]
       \/ k1[1] = k2[1] /\ KeyLess(Tail(k1), Tail(k2))

\* get_feeding_logs(reptile_id, limit=1): the row with the greatest
\* feeding_date text among the reptile's logs (<<>> when there is none)
get_feeding_logs_limit1(logs, reps, reptile_id) ==
    LET mine == SelectSeq(logs, LAMBDA l : l.reptile_id = reptile_id
                                           /\ l.reptile_id \in reps)
    IN  IF Len(mine) = 0 THEN <<>>
        ELSE LET m == CHOOSE i \in 1..Len(mine) :
                        \A j \in 1..Len(mine) :
                            \/ KeyLess(DateTextKey(mine[j].feeding_date),
                                       DateTextKey(mine[i].feeding_date))
                            \/ /\ mine[j].feeding_date = mine[i].feeding_date
                               /\ i <= j
                            \/ /\ DateTextKey(mine[j].feeding_date)
                                    = DateTextKey(mine[i].feeding_date)
                               /\ i <= j
             IN  <<mine[m]>>

delete_feeding_log(logs, log_id) == SelectSeq(logs, LAMBDA l : l.id # log_id)


(***************************************************************************)
(* Inventory ledger: ReptileDatabase, FOOD INVENTORY OPERATIONS            *)
(***************************************************************************)
\* LOWER() of SQLite on the food names the requests use
Lower(t) == IF t = "Rat" THEN "rat" ELSE t

NewTransaction(id, inventory_id, transaction_type, quantity, nowOrd, reference_id) ==
    [id |-> id, inventory_id |-> inventory_id,
     transaction_type |-> transaction_type, quantity |-> quantity,
     transaction_date |-> get_current_date(nowOrd), reference_id |-> reference_id]

\* get_food_item: the index of the row with this id, 0 when there is none
get_food_item(inv, inventory_id) ==
    IF \E i \in 1..Len(inv) : inv[i].id = inventory_id
    THEN CHOOSE i \in 1..Len(inv) : inv[i].id = inventory_id
    ELSE 0

\* get_food_item_by_type: case-insensitive match on type and size
get_food_item_by_type(inv, food_type, food_size) ==
    IF \E i \in 1..Len(inv) : Lower(inv[i].food_type) = Lower(food_type)
                              /\ Lower(inv[i].food_size) = Lower(food_size)
    THEN CHOOSE i \in 1..Len(inv) :
            /\ Lower(inv[i].food_type) = Lower(food_type)
            /\ Lower(inv[i].food_size) = Lower(food_size)
            /\ \A j \in 1..(i - 1) : ~ (/\ Lower(inv[j].food_type) = Lower(food_type)
                                        /\ Lower(inv[j].food_size) = Lower(food_size))
    ELSE 0

\* the exact-match SELECT of add_food_item
FindExact(inv, food_type, food_size) ==
    IF \E i \in 1..Len(inv) : inv[i].food_type = food_type /\ inv[i].food_size = food_size
    THEN CHOOSE i \in 1..Len(inv) : inv[i].food_type = food_type
                                    /\ inv[i].food_size = food_size
    ELSE 0

\* new_quantity of update_food_quantity: floor at zero
ClampQuantity(current, quantity_change) ==
    IF current + quantity_change < 0 THEN 0 ELSE current + quantity_change

\* update_food_quantity logging the change it applied, not the one requested
update_food_quantity_applied(inv, txs, txId, inventory_id, quantity_change, transaction_type, reference_id, nowOrd) ==
    LET i == get_food_item(inv, inventory_id)
    IN  IF i = 0 THEN [ok |-> FALSE, inv |-> inv, txs |-> txs]
        ELSE [ok  |-> TRUE,
              inv |-> [inv EXCEPT ![i].quantity =
                                    ClampQuantity(inv[i].quantity, quantity_change)],
              txs |-> Append(txs, NewTransaction(txId, inventory_id, transaction_type,
                                                 ClampQuantity(inv[i].quantity, quantity_change)
                                                   - inv[i].quantity,
                                                 nowOrd, reference_id))]

\* update_food_quantity: [ok, inv, txs]; an unknown id changes nothing
update_food_quantity(inv, txs, txId, inventory_id, quantity_change, transaction_type, reference_id, nowOrd) ==
    LET i == get_food_item(inv, inventory_id)
    IN  IF i = 0 THEN [ok |-> FALSE, inv |-> inv, txs |-> txs]
        ELSE [ok  |-> TRUE,
              inv |-> [inv EXCEPT ![i].quantity =
                                    ClampQuantity(inv[i].quantity, quantity_change)],
              txs |-> Append(txs, NewTransaction(txId, inventory_id, transaction_type,
                                                 quantity_change, nowOrd, reference_id))]

\* add_food_item: [inv, txs]; adds to an exact match or inserts a row, and
\* logs a purchase of the given quantity
add_food_item(inv, txs, newInvId, txId, food_type, food_size, quantity, nowOrd) ==
    LET i == FindExact(inv, food_type, food_size)
    IN  IF i # 0
        THEN [inv |-> [inv EXCEPT ![i].quantity = inv[i].quantity + quantity],
              txs |-> Append(txs, NewTransaction(txId, inv[i].id, "purchase",
                                                 quantity, nowOrd, None))]
        ELSE [inv |-> Append(inv, [id |-> newInvId, food_type |-> food_type,
                                   food_size |-> food_size, quantity |-> quantity]),
              txs |-> Append(txs, NewTransaction(txId, newInvId, "purchase",
                                                 quantity, nowOrd, None))]

delete_food_item(inv, inventory_id) == SelectSeq(inv, LAMBDA r : r.id # inventory_id)

\* mutant: the inventory is debited whether or not the animal ate
add_feeding_log_uneaten(logs, inv, txs, logId, txId, reptile_id, feeding_date, quantity, ate, inventory_id, nowOrd) ==
    LET inserted == Append(logs, NewFeedingLog(logId, reptile_id, feeding_date,
                                               inventory_id, quantity, ate))
    IN  IF inventory_id # None
        THEN LET res == update_food_quantity(inv, txs, txId, inventory_id,
                                             0 - quantity, "feeding", logId, nowOrd)
             IN  [logs |-> IF res.ok
                           THEN [inserted EXCEPT ![Len(inserted)].auto_deducted = TRUE]
                           ELSE inserted,
                  inv  |-> res.inv,
                  txs  |-> res.txs]
        ELSE [logs |-> inserted, inv |-> inv, txs |-> txs]

\* mutant: the log is marked as deducted whatever update_food_quantity returned
add_feeding_log_marking(logs, inv, txs, logId, txId, reptile_id, feeding_date, quantity, ate, inventory_id, nowOrd) ==
    LET inserted == Append(logs, NewFeedingLog(logId, reptile_id, feeding_date,
                                               inventory_id, quantity, ate))
    IN  IF inventory_id # None /\ ate
        THEN LET res == update_food_quantity(inv, txs, txId, inventory_id,
                                             0 - quantity, "feeding", logId, nowOrd)
             IN  [logs |-> [inserted EXCEPT ![Len(inserted)].auto_deducted = TRUE],
                  inv  |-> res.inv,
                  txs  |-> res.txs]
        ELSE [logs |-> inserted, inv |-> inv, txs |-> txs]

\* add_feeding_log: [logs, inv, txs]; inserts the log, debits the inventory
\* when an inventory id is given and the animal ate, and then marks the log
add_feeding_log(logs, inv, txs, logId, txId, reptile_id, feeding_date, quantity, ate, inventory_id, nowOrd) ==
    LET inserted == Append(logs, NewFeedingLog(logId, reptile_id, feeding_date,
                                               inventory_id, quantity, ate))
    IN  IF inventory_id # None /\ ate
        THEN LET res == update_food_quantity(inv, txs, txId, inventory_id,
                                             0 - quantity, "feeding", logId, nowOrd)
             IN  [logs |-> IF res.ok
                           THEN [inserted EXCEPT ![Len(inserted)].auto_deducted = TRUE]
                           ELSE inserted,
                  inv  |-> res.inv,
                  txs  |-> res.txs]
        ELSE [logs |-> inserted, inv |-> inv, txs |-> txs]


(***************************************************************************)
(* Request handlers of app.py, each handled start to end                   *)
(***************************************************************************)
StartOrd == DateOrd(StartDate)

\* the form sent no date: request.form.get('date') is empty
NoDate == [fmt |-> "empty", a |-> 0, b |-> 0, c |-> 0]

NextTxId == Len(inventory_transactions) + 1

StockInBounds(inv) == \A i \in 1..Len(inv) : inv[i].quantity <= MaxStock

\* POST /feeding/<reptile_id>: add_feeding_log, then update_feeding_reminder_dates
log_feeding(reptile_id, date, inventory_id, quantity, ate) ==
    /\ UNCHANGED others
    /\ reptile_id \in reptiles
    /\ sqlite_sequence.feeding_logs < MaxLogs
    /\ Len(inventory_transactions) < MaxTx
    /\ LET feeding_date == IF date = NoDate THEN get_current_date(now) ELSE date
           logId == sqlite_sequence.feeding_logs + 1
           res == add_feeding_log(feeding_logs, food_inventory, inventory_transactions,
                                  logId, NextTxId, reptile_id, feeding_date,
                                  quantity, ate, inventory_id, now)
       IN  /\ StockInBounds(res.inv)
           /\ feeding_logs' = res.logs
           /\ food_inventory' = res.inv
           /\ inventory_transactions' = res.txs
           /\ sqlite_sequence' = [sqlite_sequence EXCEPT !.feeding_logs = logId]
           /\ feeding_reminders' =
                update_feeding_reminder_dates(feeding_reminders, reptile_id,
                                              feeding_date, now)
    /\ UNCHANGED <<reptiles, now>>

\* POST /reptile/add: add_reptile inserts a row
add_reptile ==
    /\ UNCHANGED others
    /\ sqlite_sequence.reptiles < MaxReptiles
    /\ reptiles' = reptiles \cup {sqlite_sequence.reptiles + 1}
    /\ sqlite_sequence' = [sqlite_sequence EXCEPT !.reptiles = @ + 1]
    /\ UNCHANGED <<feeding_reminders, feeding_logs, food_inventory,
                   inventory_transactions, now>>

\* POST /reptile/<reptile_id>/delete: delete_reptile removes the reptiles row
\* only; no connection turns foreign keys on, so no cascade runs
delete_reptile(reptile_id) ==
    /\ UNCHANGED others
    /\ reptile_id \in reptiles
    /\ reptiles' = reptiles \ {reptile_id}
    /\ UNCHANGED <<feeding_reminders, feeding_logs, food_inventory,
                   inventory_transactions, sqlite_sequence, now>>

\* POST /feeding/<log_id>/delete
delete_feeding(log_id) ==
    /\ UNCHANGED others
    /\ \E i \in 1..Len(feeding_logs) : feeding_logs[i].id = log_id
    /\ feeding_logs' = delete_feeding_log(feeding_logs, log_id)
    /\ UNCHANGED <<reptiles, feeding_reminders, food_inventory,
                   inventory_transactions, sqlite_sequence, now>>

\* the interval check of set_feeding_reminder
IntervalAccepted(feeding_interval_days) == ~ (feeding_interval_days < 1)

\* POST /reptile/<reptile_id>/feeding-reminder/set
set_feeding_reminder(reptile_id, feeding_interval_days) ==
    /\ UNCHANGED others
    /\ reptile_id \in reptiles
    /\ IF ~ IntervalAccepted(feeding_interval_days)
       THEN UNCHANGED <<feeding_reminders, sqlite_sequence>>
       ELSE LET newId == sqlite_sequence.feeding_reminders + 1
                inserts == InsertsReminder(feeding_reminders, reptile_id)
                added == add_feeding_reminder(feeding_reminders, newId, reptile_id,
                                              feeding_interval_days)
                recent_feeding == get_feeding_logs_limit1(feeding_logs, reptiles,
                                                          reptile_id)
            IN  /\ inserts => newId <= MaxReminderRows
                /\ sqlite_sequence' =
                     IF inserts
                     THEN [sqlite_sequence EXCEPT !.feeding_reminders = newId]
                     ELSE sqlite_sequence
                /\ feeding_reminders' =
                     IF Len(recent_feeding) > 0
                     THEN update_feeding_reminder_dates(added, reptile_id,
                                recent_feeding[1].feeding_date, now)
                     ELSE added
    /\ UNCHANGED <<reptiles, feeding_logs, food_inventory, inventory_transactions, now>>

\* POST /reptile/<reptile_id>/feeding-reminder/disable
disable_feeding_reminder(reptile_id) ==
    /\ UNCHANGED others
    /\ feeding_reminders' = toggle_feeding_reminder(feeding_reminders, reptile_id, FALSE)
    /\ UNCHANGED <<reptiles, feeding_logs, food_inventory, inventory_transactions,
                   sqlite_sequence, now>>

\* the restored feeding logs of restore_data: add_feeding_log without inventory
RECURSIVE RestoreLogs(_, _, _, _)
RestoreLogs(logs, firstId, reptile_id, dates) ==
    IF Len(dates) = 0 THEN logs
    ELSE RestoreLogs(Append(logs, NewFeedingLog(firstId, reptile_id, Head(dates),
                                                None, 1, TRUE)),
                     firstId + 1, reptile_id, Tail(dates))

\* the restored reminders of restore_data: add_feeding_reminder per backup row
RECURSIVE RestoreReminders(_, _, _, _)
RestoreReminders(rems, newId, reptile_id, intervals) ==
    IF Len(intervals) = 0 THEN rems
    ELSE RestoreReminders(add_feeding_reminder(rems, newId, reptile_id, Head(intervals)),
                          IF InsertsReminder(rems, reptile_id) THEN newId + 1 ELSE newId,
                          reptile_id, Tail(intervals))

\* POST /restore with a backup of one reptile, its feeding logs and reminders
restore_data(restore_mode, dates, intervals) ==
    /\ UNCHANGED others
    /\ LET new_id == sqlite_sequence.reptiles + 1
           keptLogs == IF restore_mode = "replace" THEN <<>> ELSE feeding_logs
           keptRems == IF restore_mode = "replace" THEN <<>> ELSE feeding_reminders
           keptReps == IF restore_mode = "replace" THEN {} ELSE reptiles
           rems == RestoreReminders(keptRems, sqlite_sequence.feeding_reminders + 1,
                                    new_id, intervals)
           inserted == IF Len(intervals) > 0 THEN 1 ELSE 0
       IN  /\ new_id <= MaxReptiles
           /\ sqlite_sequence.feeding_logs + Len(dates) <= MaxLogs
           /\ sqlite_sequence.feeding_reminders + inserted <= MaxReminderRows
           /\ reptiles' = keptReps \cup {new_id}
           /\ feeding_logs' = RestoreLogs(keptLogs, sqlite_sequence.feeding_logs + 1,
                                          new_id, dates)
           /\ feeding_reminders' = rems
           /\ sqlite_sequence' =
                [sqlite_sequence EXCEPT
                   !.reptiles = new_id,
                   !.feeding_logs = @ + Len(dates),
                   !.feeding_reminders = @ + inserted]
           /\ UNCHANGED <<food_inventory, inventory_transactions, now>>

\* POST /inventory/add
add_inventory_item(food_type, food_size, quantity) ==
    /\ UNCHANGED others
    /\ Len(inventory_transactions) < MaxTx
    /\ LET existing == get_food_item_by_type(food_inventory, food_type, food_size)
           newInvId == sqlite_sequence.food_inventory + 1
           upd == update_food_quantity(food_inventory, inventory_transactions,
                                       NextTxId, food_inventory[existing].id, quantity,
                                       "purchase", None, now)
           add == add_food_item(food_inventory, inventory_transactions, newInvId,
                                NextTxId, food_type, food_size, quantity, now)
       IN  IF existing # 0
           THEN /\ StockInBounds(upd.inv)
                /\ food_inventory' = upd.inv
                /\ inventory_transactions' = upd.txs
                /\ UNCHANGED sqlite_sequence
           ELSE /\ newInvId <= MaxSkus
                /\ StockInBounds(add.inv)
                /\ food_inventory' = add.inv
                /\ inventory_transactions' = add.txs
                /\ sqlite_sequence' = [sqlite_sequence EXCEPT !.food_inventory = newInvId]
    /\ UNCHANGED <<reptiles, feeding_reminders, feeding_logs, now>>

\* POST /inventory/<inventory_id>/adjust
adjust_inventory(inventory_id, quantity_change) ==
    /\ UNCHANGED others
    /\ Len(inventory_transactions) < MaxTx
    /\ LET res == update_food_quantity(food_inventory, inventory_transactions, NextTxId,
                                       inventory_id, quantity_change, "adjustment",
                                       None, now)
       IN  /\ StockInBounds(res.inv)
           /\ food_inventory' = res.inv
           /\ inventory_transactions' = res.txs
    /\ UNCHANGED <<reptiles, feeding_reminders, feeding_logs, sqlite_sequence, now>>

\* mutant: the DELETE takes the SKU's transactions with it, as ON DELETE
\* CASCADE would on a connection with foreign keys on
delete_inventory_item_cascading(inventory_id) ==
    /\ UNCHANGED others
    /\ \E i \in 1..Len(food_inventory) : food_inventory[i].id = inventory_id
    /\ food_inventory' = delete_food_item(food_inventory, inventory_id)
    /\ inventory_transactions' =
         SelectSeq(inventory_transactions, LAMBDA x : x.inventory_id # inventory_id)
    /\ UNCHANGED <<reptiles, feeding_reminders, feeding_logs, sqlite_sequence, now>>

\* POST /inventory/<inventory_id>/delete
delete_inventory_item(inventory_id) ==
    /\ UNCHANGED others
    /\ \E i \in 1..Len(food_inventory) : food_inventory[i].id = inventory_id
    /\ food_inventory' = delete_food_item(food_inventory, inventory_id)
    /\ UNCHANGED <<reptiles, feeding_reminders, feeding_logs, inventory_transactions,
                   sqlite_sequence, now>>

\* a day passes
Tick ==
    /\ UNCHANGED others
    /\ now < StartOrd + MaxDays
    /\ now' = now + 1
    /\ UNCHANGED tables


(***************************************************************************)
(* log_feeding on concurrent request threads.  Every request opens its own *)
(* connection (get_db), every statement outside a transaction and every    *)
(* commit is a step the other threads can interleave with.                 *)
(***************************************************************************)
Threads == 1..MaxThreads

\* no suggestion: get_feeding_recommendation raised and reptile_details
\* caught it
NoSuggestion ==
    [suggested_date |-> NULL, days_until |-> 0, status |-> "none",
     recommended_interval |-> 0, min_days |-> 0, max_days |-> 0,
     age_category |-> "none", confidence |-> "none"]

IdleRequest ==
    [pc |-> "idle", reptile_id |-> None, feeding_date |-> NoDate, quantity |-> 0,
     ate |-> FALSE, inventory_id |-> None, feeding_log_id |-> None,
     item_quantity |-> 0, feeding_interval_days |-> 0, requested_interval |-> 0,
     days_ahead |-> 0, date_of_birth |-> NULL, age_category |-> "none",
     species |-> NoText, now_seconds |-> 0, suggestion |-> NoSuggestion]

\* log_feeding up to the call of add_feeding_log: get_reptile and the form
receive_log_feeding(t, reptile_id, date, inventory_id, quantity, ate) ==
    /\ requests[t].pc = "idle"
    /\ reptile_id \in reptiles
    /\ requests' = [requests EXCEPT ![t] =
            [IdleRequest EXCEPT
                !.pc = "add_feeding_log",
                !.reptile_id = reptile_id,
                !.feeding_date = IF date = NoDate THEN get_current_date(now) ELSE date,
                !.quantity = quantity,
                !.ate = ate,
                !.inventory_id = inventory_id]]
    /\ UNCHANGED <<tables, now, notification_settings, scheduler, outbox>>

\* add_feeding_log: INSERT INTO feeding_logs, commit, lastrowid
insert_feeding_log(t) ==
    /\ requests[t].pc = "add_feeding_log"
    /\ LET r == requests[t]
           logId == sqlite_sequence.feeding_logs + 1
       IN  /\ feeding_logs' = Append(feeding_logs,
                                     NewFeedingLog(logId, r.reptile_id, r.feeding_date,
                                                   r.inventory_id, r.quantity, r.ate))
           /\ sqlite_sequence' = [sqlite_sequence EXCEPT !.feeding_logs = logId]
           /\ requests' = [requests EXCEPT
                             ![t].feeding_log_id = logId,
                             ![t].pc = IF r.inventory_id # None /\ r.ate
                                       THEN "get_food_item"
                                       ELSE "select_reminder"]
    /\ UNCHANGED <<reptiles, feeding_reminders, food_inventory, inventory_transactions,
                   now, notification_settings, scheduler, outbox>>

\* update_food_quantity: item = self.get_food_item(inventory_id)
read_food_item(t) ==
    /\ requests[t].pc = "get_food_item"
    /\ LET i == get_food_item(food_inventory, requests[t].inventory_id)
       IN  requests' = IF i = 0
                       THEN [requests EXCEPT ![t].pc = "select_reminder"]
                       ELSE [requests EXCEPT
                               ![t].item_quantity = food_inventory[i].quantity,
                               ![t].pc = "update_food_quantity"]
    /\ UNCHANGED <<tables, now, notification_settings, scheduler, outbox>>

\* update_food_quantity: new_quantity from the item read, UPDATE
\* food_inventory, INSERT INTO inventory_transactions, commit
write_food_quantity(t) ==
    /\ requests[t].pc = "update_food_quantity"
    /\ LET r == requests[t]
       IN  /\ food_inventory' =
                [i \in 1..Len(food_inventory) |->
                    IF food_inventory[i].id = r.inventory_id
                    THEN [food_inventory[i] EXCEPT
                            !.quantity = ClampQuantity(r.item_quantity, 0 - r.quantity)]
                    ELSE food_inventory[i]]
           /\ inventory_transactions' =
                Append(inventory_transactions,
                       NewTransaction(NextTxId, r.inventory_id, "feeding",
                                      0 - r.quantity, now, r.feeding_log_id))
           /\ requests' = [requests EXCEPT ![t].pc = "mark_auto_deducted"]
    /\ UNCHANGED <<reptiles, feeding_reminders, feeding_logs, sqlite_sequence,
                   now, notification_settings, scheduler, outbox>>

\* add_feeding_log: UPDATE feeding_logs SET auto_deducted, commit
mark_auto_deducted(t) ==
    /\ requests[t].pc = "mark_auto_deducted"
    /\ feeding_logs' =
         [i \in 1..Len(feeding_logs) |->
             IF feeding_logs[i].id = requests[t].feeding_log_id
             THEN [feeding_logs[i] EXCEPT !.auto_deducted = TRUE]
             ELSE feeding_logs[i]]
    /\ requests' = [requests EXCEPT ![t].pc = "select_reminder"]
    /\ UNCHANGED <<reptiles, feeding_reminders, food_inventory, inventory_transactions,
                   sqlite_sequence, now, notification_settings, scheduler, outbox>>

\* update_feeding_reminder_dates: the SELECT of the interval
select_reminder(t) ==
    /\ requests[t].pc = "select_reminder"
    /\ requests' =
         IF ActiveReminderRows(feeding_reminders, requests[t].reptile_id) = {}
         THEN [requests EXCEPT ![t].pc = "done"]
         ELSE [requests EXCEPT
                 ![t].feeding_interval_days =
                     SelectedInterval(feeding_reminders, requests[t].reptile_id),
                 ![t].pc = "update_reminder"]
    /\ UNCHANGED <<tables, now, notification_settings, scheduler, outbox>>

\* update_feeding_reminder_dates: the UPDATE of both dates, commit
update_reminder(t) ==
    /\ requests[t].pc = "update_reminder"
    /\ feeding_reminders' =
         write_reminder_dates(feeding_reminders, requests[t].reptile_id,
                              requests[t].feeding_date,
                              requests[t].feeding_interval_days, now)
    /\ requests' = [requests EXCEPT ![t].pc = "done"]
    /\ UNCHANGED <<reptiles, feeding_logs, food_inventory, inventory_transactions,
                   sqlite_sequence, now, notification_settings, scheduler, outbox>>


(***************************************************************************)
(* Reminder scheduler: ReminderScheduler.check_and_send_reminders, run by  *)
(* the BackgroundScheduler thread next to the request threads              *)
(***************************************************************************)
\* get_notification_settings() returning None
NoSettings ==
    [id |-> None, email_enabled |-> FALSE, email |-> NoText, sms_enabled |-> FALSE,
     phone |-> NoText, notify_overdue_only |-> FALSE]

IdleScheduler ==
    [pc |-> "idle", settings |-> NoSettings, overdue |-> <<>>, upcoming |-> <<>>,
     to_notify |-> <<>>, idx |-> 0]

\* the dicts of get_overdue_feedings: the reminder columns and days_overdue
OverdueRows(rows, nowOrd) ==
    [i \in 1..Len(rows) |->
        [row |-> rows[i], column |-> "days_overdue",
         days |-> nowOrd - DateOrd(rows[i].next_feeding_date)]]

\* the dicts of get_upcoming_feedings: the reminder columns and days_until
UpcomingRows(rows, nowOrd) ==
    [i \in 1..Len(rows) |->
        [row |-> rows[i], column |-> "days_until",
         days |-> DateOrd(rows[i].next_feeding_date) - nowOrd]]

\* db = ReptileDatabase(...); settings = db.get_notification_settings();
\* return when there are none
start_check ==
    /\ scheduler.pc \in {"idle", "returned"}
    /\ scheduler' = IF notification_settings.id = None
                    THEN [IdleScheduler EXCEPT !.pc = "returned"]
                    ELSE [IdleScheduler EXCEPT !.pc = "get_overdue_feedings",
                                               !.settings = notification_settings]
    /\ outbox' = <<>>
    /\ UNCHANGED <<tables, now, notification_settings, requests>>

\* overdue = db.get_overdue_feedings()
query_overdue ==
    /\ scheduler.pc = "get_overdue_feedings"
    /\ scheduler' =
         [scheduler EXCEPT
            !.overdue = OverdueRows(get_overdue_feedings(feeding_reminders, reptiles, now),
                                    now),
            !.pc = "get_upcoming_feedings"]
    /\ UNCHANGED <<tables, now, notification_settings, requests, outbox>>

\* upcoming = db.get_upcoming_feedings(days_ahead=1); to_notify; return when
\* it is empty
query_upcoming ==
    /\ scheduler.pc = "get_upcoming_feedings"
    /\ LET upcoming == UpcomingRows(get_upcoming_feedings(feeding_reminders, reptiles,
                                                          now, 1), now)
           to_notify == IF scheduler.settings.notify_overdue_only
                        THEN scheduler.overdue
                        ELSE scheduler.overdue \o upcoming
       IN  scheduler' = [scheduler EXCEPT
                           !.upcoming = upcoming,
                           !.to_notify = to_notify,
                           !.idx = 1,
                           !.pc = IF Len(to_notify) = 0 THEN "returned"
                                  ELSE "send_notification"]
    /\ UNCHANGED <<tables, now, notification_settings, requests, outbox>>

\* send_email, send_sms and send_push_notification log a failure and return
Outcome(ok) == IF ok THEN "sent" ELSE "failed"

\* send_notification: email and SMS when enabled and addressed, push always
Sends(feeding, settings, is_overdue, email_ok, sms_ok, push_ok) ==
    [feeding    |-> feeding,
     is_overdue |-> is_overdue,
     email      |-> IF settings.email_enabled /\ settings.email # NoText
                    THEN Outcome(email_ok) ELSE "none",
     sms        |-> IF settings.sms_enabled /\ settings.phone # NoText
                    THEN Outcome(sms_ok) ELSE "none",
     push       |-> Outcome(push_ok)]

\* mutant: a failed send ends the for loop
AfterSendAborting(idx, n, failed) ==
    IF failed \/ idx >= n THEN "returned" ELSE "send_notification"

\* for feeding in to_notify: the loop goes on to the next entry whatever
\* the sends did, and the run returns after the last one
AfterSend(idx, n, failed) == IF idx >= n THEN "returned" ELSE "send_notification"

\* one pass of the for loop, seen from the scheduler frame and the notifier
Dispatch(email_ok, sms_ok, push_ok) ==
    /\ scheduler.pc = "send_notification"
    /\ LET feeding == scheduler.to_notify[scheduler.idx]
           sends == Sends(feeding, scheduler.settings,
                          feeding \in SeqToSet(scheduler.overdue),
                          email_ok, sms_ok, push_ok)
           failed == "failed" \in {sends.email, sends.sms, sends.push}
       IN  /\ outbox' = Append(outbox, sends)
           /\ scheduler' = [scheduler EXCEPT
                              !.idx = scheduler.idx + 1,
                              !.pc = AfterSend(scheduler.idx, Len(scheduler.to_notify),
                                               failed)]

\* mutant: the reminder is switched off once it has been notified
send_notification_once(email_ok, sms_ok, push_ok) ==
    /\ Dispatch(email_ok, sms_ok, push_ok)
    /\ feeding_reminders' =
         toggle_feeding_reminder(feeding_reminders,
                                 scheduler.to_notify[scheduler.idx].row.reptile_id, FALSE)
    /\ UNCHANGED <<reptiles, feeding_logs, food_inventory, inventory_transactions,
                   sqlite_sequence, now, notification_settings, requests>>

\* self.send_notification(feeding, settings, is_overdue=(feeding in overdue))
send_notification(email_ok, sms_ok, push_ok) ==
    /\ Dispatch(email_ok, sms_ok, push_ok)
    /\ UNCHANGED <<tables, now, notification_settings, requests>>


(***************************************************************************)
(* Specifications                                                          *)
(***************************************************************************)
vars == <<reptiles, feeding_reminders, feeding_logs, food_inventory,
          inventory_transactions, sqlite_sequence, now,
          notification_settings, requests, scheduler, outbox>>

\* the empty database ReptileDatabase creates, on StartDate
Init ==
    /\ reptiles = {}
    /\ feeding_reminders = <<>>
    /\ feeding_logs = <<>>
    /\ food_inventory = <<>>
    /\ inventory_transactions = <<>>
    /\ sqlite_sequence = [reptiles |-> 0, feeding_reminders |-> 0, feeding_logs |-> 0,
                          food_inventory |-> 0]
    /\ now = StartOrd
    /\ notification_settings = NoSettings
    /\ requests = [t \in Threads |-> IdleRequest]
    /\ scheduler = IdleScheduler
    /\ outbox = <<>>

\* the feeding dates the forms submit: a date input, an ISO datetime, a
\* month/day/year text and free text
FeedingDates ==
    {Ymd(2024, 2, 28), YmdHms(2024, 2, 29), Slash(2, 29, 2024), BadDate}

ReptileIds == 1..MaxReptiles
LogIds == 1..MaxLogs
Intervals == 0..MaxInterval

BackupLogs == {<<>>, <<Ymd(2024, 2, 28)>>}
BackupReminders == {<<>>} \cup {<<n>> : n \in Intervals}

\* the reminder store under feeding, reminder and restore requests
NextReminder ==
    \/ add_reptile
    \/ \E r \in ReptileIds, d \in FeedingDates : log_feeding(r, d, None, 1, TRUE)
    \/ \E r \in ReptileIds, n \in Intervals : set_feeding_reminder(r, n)
    \/ \E r \in ReptileIds : disable_feeding_reminder(r)
    \/ \E l \in LogIds : delete_feeding(l)
    \/ \E r \in ReptileIds : delete_reptile(r)
    \/ \E m \in {"merge", "replace"}, ds \in BackupLogs, ns \in BackupReminders :
            restore_data(m, ds, ns)
    \/ Tick

Spec == Init /\ [][NextReminder]_vars


(***************************************************************************)
(* Properties of the reminder store and the scanner                        *)
(***************************************************************************)
\* a feeding request for reptile r is handled in this step
RecordFeeding(r) == \E d \in FeedingDates : log_feeding(r, d, None, 1, TRUE)

HasActiveReminder(r) ==
    \E i \in 1..Len(feeding_reminders) :
        feeding_reminders[i].reptile_id = r /\ feeding_reminders[i].is_active

DatesSet(rem) == rem.last_fed_date # NULL /\ rem.next_feeding_date # NULL

DatesConsistent(rem) ==
    DateOrd(rem.next_feeding_date) = DateOrd(rem.last_fed_date) + rem.feeding_interval_days

\* C1: after every feeding request for an animal with an active reminder,
\* that reminder has both dates set and next_feeding_date is exactly
\* last_fed_date plus the interval the reminder stored when the request came.
C1_RecordFeedingSetsNext ==
    [][\A r \in ReptileIds :
          (HasActiveReminder(r) /\ RecordFeeding(r)) =>
             \A i \in 1..Len(feeding_reminders') :
                (feeding_reminders'[i].reptile_id = r /\ feeding_reminders'[i].is_active) =>
                   /\ DatesSet(feeding_reminders'[i])
                   /\ DateOrd(feeding_reminders'[i].next_feeding_date)
                        = DateOrd(feeding_reminders'[i].last_fed_date)
                          + feeding_reminders[i].feeding_interval_days]_vars

\* C1 witness: an active reminder carries the date of one of its animal's
\* feeding logs, and its next feeding date falls in the following month
C1_Witness ==
    \E i \in 1..Len(feeding_reminders), j \in 1..Len(feeding_logs) :
        /\ feeding_reminders[i].is_active
        /\ feeding_logs[j].reptile_id = feeding_reminders[i].reptile_id
        /\ feeding_reminders[i].last_fed_date = Ymd(2024, 2, 29)
        /\ feeding_logs[j].feeding_date = YmdHms(2024, 2, 29)
        /\ feeding_reminders[i].feeding_interval_days = 2
        /\ feeding_reminders[i].next_feeding_date = Ymd(2024, 3, 2)

\* C2: in every reachable state every reminder with both dates set has
\* next_feeding_date = last_fed_date + feeding_interval_days.
C2_NextIsLastPlusInterval ==
    \A i \in 1..Len(feeding_reminders) :
        DatesSet(feeding_reminders[i]) => DatesConsistent(feeding_reminders[i])

ReminderIdsOf(rows) == {rows[i].id : i \in 1..Len(rows)}

\* C4: for the current day and every days_ahead, no reminder is returned by
\* both get_overdue_feedings and get_upcoming_feedings.
C4_OverdueUpcomingDisjoint ==
    \A k \in 0..MaxAhead :
        ReminderIdsOf(get_overdue_feedings(feeding_reminders, reptiles, now))
        \cap ReminderIdsOf(get_upcoming_feedings(feeding_reminders, reptiles, now, k))
        = {}

\* C4 witness: a reminder is due exactly today, the one day both windows
\* touch, and is returned as overdue
C4_Witness ==
    \E i \in 1..Len(feeding_reminders) :
        /\ feeding_reminders[i].next_feeding_date = get_current_date(now)
        /\ feeding_reminders[i].id
              \in ReminderIdsOf(get_overdue_feedings(feeding_reminders, reptiles, now))


(***************************************************************************)
(* The inventory ledger under stock, feeding and adjustment requests       *)
(***************************************************************************)
FoodTypes == {"Rat", "rat"}
FoodSizes == {"Large"}
SkuIds == 1..MaxSkus
\* int() of the quantity fields accepts any integer text
Quantities == {0 - 1, 1, 2}

NextLedger ==
    \/ add_reptile
    \/ \E t \in FoodTypes, z \in FoodSizes, q \in Quantities : add_inventory_item(t, z, q)
    \/ \E r \in ReptileIds, k \in SkuIds \cup {None}, q \in Quantities, a \in BOOLEAN :
            log_feeding(r, NoDate, k, q, a)
    \/ \E k \in SkuIds, q \in Quantities : adjust_inventory(k, q)
    \/ \E k \in SkuIds : delete_inventory_item(k)

SpecLedger == Init /\ [][NextLedger]_vars

\* C3: the quantity on hand of every SKU is never negative, whatever integer
\* quantities the stock, feeding and adjustment requests carry.
C3_QuantityNeverNegative ==
    \A i \in 1..Len(food_inventory) : food_inventory[i].quantity >= 0

\* a feeding request that ate q items of SKU k is handled in this step
Debit(k, q) == \E r \in ReptileIds : log_feeding(r, NoDate, k, q, TRUE)

\* C5: a debit of q on an existing SKU holding c leaves max(0, c - q) and
\* appends exactly one 'feeding' transaction for that SKU whose quantity is
\* the requested -q, clamped or not.
C5_DebitClampsAndLogsRequested ==
    [][\A k \in SkuIds, q \in Quantities :
          (get_food_item(food_inventory, k) # 0 /\ Debit(k, q)) =>
             LET i == get_food_item(food_inventory, k)
                 c == food_inventory[i].quantity
                 n == Len(inventory_transactions)
             IN  /\ food_inventory'[i].quantity = (IF c - q > 0 THEN c - q ELSE 0)
                 /\ Len(inventory_transactions') = n + 1
                 /\ SubSeq(inventory_transactions', 1, n) = inventory_transactions
                 /\ inventory_transactions'[n + 1].transaction_type = "feeding"
                 /\ inventory_transactions'[n + 1].inventory_id = k
                 /\ inventory_transactions'[n + 1].quantity = 0 - q]_vars

\* C5 witness: one item was bought and two were fed: the SKU holds zero and
\* the log records -2
C5_Witness ==
    /\ Len(inventory_transactions) = 2
    /\ inventory_transactions[1].transaction_type = "purchase"
    /\ inventory_transactions[1].quantity = 1
    /\ inventory_transactions[2].transaction_type = "feeding"
    /\ inventory_transactions[2].quantity = 0 - 2
    /\ \E i \in 1..Len(food_inventory) :
          /\ food_inventory[i].id = inventory_transactions[2].inventory_id
          /\ food_inventory[i].quantity = 0
    /\ \E j \in 1..Len(feeding_logs) :
          /\ feeding_logs[j].id = inventory_transactions[2].reference_id
          /\ feeding_logs[j].auto_deducted


(***************************************************************************)
(* Feeding requests on concurrent threads                                  *)
(***************************************************************************)
\* every animal has a reminder (interval 1) that no feeding has touched yet
RECURSIVE FreshReminders(_)
FreshReminders(n) ==
    IF n = 0 THEN <<>> ELSE add_feeding_reminder(FreshReminders(n - 1), n, n, 1)

\* one SKU bought in one purchase of S items
StockedLedger(S) == add_food_item(<<>>, <<>>, 1, 1, "Rat", "Large", S, StartOrd)

\* animals with fresh reminders and one stocked SKU; no request under way
InitConcurrent ==
    /\ reptiles = 1..MaxReptiles
    /\ feeding_reminders = FreshReminders(MaxReptiles)
    /\ feeding_logs = <<>>
    /\ \E S \in 1..MaxStock :
          /\ food_inventory = StockedLedger(S).inv
          /\ inventory_transactions = StockedLedger(S).txs
    /\ sqlite_sequence = [reptiles |-> MaxReptiles, feeding_reminders |-> MaxReptiles,
                          feeding_logs |-> 0, food_inventory |-> 1]
    /\ now = StartOrd
    /\ notification_settings = NoSettings
    /\ requests = [t \in Threads |-> IdleRequest]
    /\ scheduler = IdleScheduler
    /\ outbox = <<>>

\* the quantities the concurrent feedings ask for
FedQuantities == {1, 2}

NextConcurrent ==
    \/ \E t \in Threads, r \in ReptileIds, k \in {None, 1}, q \in FedQuantities,
          a \in BOOLEAN : receive_log_feeding(t, r, NoDate, k, q, a)
    \/ \E t \in Threads : insert_feeding_log(t)
    \/ \E t \in Threads : read_food_item(t)
    \/ \E t \in Threads : write_food_quantity(t)
    \/ \E t \in Threads : mark_auto_deducted(t)
    \/ \E t \in Threads : select_reminder(t)
    \/ \E t \in Threads : update_reminder(t)

SpecConcurrent == InitConcurrent /\ [][NextConcurrent]_vars

\* C6: whenever the ledger shows the debit of a feeding, the reminder of the
\* animal fed shows that feeding too: no state has the debit applied and the
\* reminder dates not yet written.
C6_DebitAndReminderTogether ==
    \A i \in 1..Len(inventory_transactions), j \in 1..Len(feeding_logs) :
        (/\ inventory_transactions[i].transaction_type = "feeding"
         /\ inventory_transactions[i].reference_id = feeding_logs[j].id) =>
            \A k \in ActiveReminderRows(feeding_reminders, feeding_logs[j].reptile_id) :
                DatesSet(feeding_reminders[k])

\* the debits of the requests that have finished
RECURSIVE DebitedBy(_)
DebitedBy(ts) ==
    IF ts = {} THEN 0
    ELSE LET t == CHOOSE x \in ts : TRUE
         IN  (IF requests[t].pc = "done" /\ requests[t].inventory_id # None
                 /\ requests[t].ate
              THEN requests[t].quantity ELSE 0) + DebitedBy(ts \ {t})

FeedingTransactions ==
    {i \in 1..Len(inventory_transactions) :
        inventory_transactions[i].transaction_type = "feeding"}

\* C7: once the concurrent feedings of the one SKU are through, its quantity
\* is max(0, S - q1 - q2) for the S it started with, and every debit has its
\* 'feeding' transaction.
C7_ConcurrentDebitsSerialize ==
    (\A t \in Threads : requests[t].pc \in {"idle", "done"}) =>
        LET S == inventory_transactions[1].quantity
            debited == DebitedBy(Threads)
        IN  /\ food_inventory[1].quantity = (IF S - debited > 0 THEN S - debited ELSE 0)
            /\ Cardinality(FeedingTransactions)
                 = Cardinality({t \in Threads : /\ requests[t].pc = "done"
                                                /\ requests[t].inventory_id # None
                                                /\ requests[t].ate})


(***************************************************************************)
(* The scheduler next to reminder changes                                  *)
(***************************************************************************)
\* animal n was fed the day before StartDate and is fed every n days: the
\* first is due today, the second tomorrow
RECURSIVE FedReminders(_)
FedReminders(n) ==
    IF n = 0 THEN <<>>
    ELSE update_feeding_reminder_dates(add_feeding_reminder(FedReminders(n - 1), n, n, n),
                                       n, StrfDate(StartOrd - 1), StartOrd)

RECURSIVE FedLogs(_)
FedLogs(n) ==
    IF n = 0 THEN <<>>
    ELSE Append(FedLogs(n - 1),
                NewFeedingLog(n, n, StrfDate(StartOrd - 1), None, 1, TRUE))

\* the rows the settings form can have saved
SettingsRows ==
    {[id |-> 1, email_enabled |-> e, email |-> "keeper@example.org",
      sms_enabled |-> m, phone |-> NoText, notify_overdue_only |-> o] :
        e \in BOOLEAN, m \in BOOLEAN, o \in BOOLEAN}

InitScheduler ==
    /\ reptiles = 1..MaxAnimals
    /\ feeding_reminders = FedReminders(MaxAnimals)
    /\ feeding_logs = FedLogs(MaxAnimals)
    /\ food_inventory = StockedLedger(1).inv
    /\ inventory_transactions = StockedLedger(1).txs
    /\ sqlite_sequence = [reptiles |-> MaxAnimals, feeding_reminders |-> MaxAnimals,
                          feeding_logs |-> MaxAnimals, food_inventory |-> 1]
    /\ now = StartOrd
    /\ notification_settings \in SettingsRows \cup {NoSettings}
    /\ requests = [t \in Threads |-> IdleRequest]
    /\ scheduler = IdleScheduler
    /\ outbox = <<>>

AnimalIds == 1..MaxAnimals

NextScheduler ==
    \/ start_check
    \/ query_overdue
    \/ query_upcoming
    \/ \E email_ok \in BOOLEAN, sms_ok \in BOOLEAN, push_ok \in BOOLEAN :
            send_notification(email_ok, sms_ok, push_ok)
    \/ \E r \in AnimalIds : disable_feeding_reminder(r)
    \/ \E r \in AnimalIds : delete_reptile(r)
    \/ Tick

SpecScheduler == InitScheduler /\ [][NextScheduler]_vars

\* a step of check_and_send_reminders
SchedulerStep ==
    \/ start_check
    \/ query_overdue
    \/ query_upcoming
    \/ \E email_ok \in BOOLEAN, sms_ok \in BOOLEAN, push_ok \in BOOLEAN :
            send_notification(email_ok, sms_ok, push_ok)

\* C8: no step of the scheduled check changes a reminder, a SKU quantity or
\* the transaction log, whether its sends succeed or fail.
C8_SchedulerWritesNothing ==
    [][SchedulerStep =>
          UNCHANGED <<feeding_reminders, food_inventory, inventory_transactions>>]_vars

\* C8 witness: a run has returned after a send that failed and one that did
\* not, with reminders and stock in the store
C8_Witness ==
    /\ scheduler.pc = "returned"
    /\ \E i \in 1..Len(outbox) : outbox[i].push = "failed"
    /\ \E i \in 1..Len(outbox) : outbox[i].email = "sent"
    /\ Len(feeding_reminders) > 0
    /\ Len(food_inventory) > 0

Attempted(sends, settings) ==
    /\ (settings.email_enabled /\ settings.email # NoText) => sends.email # "none"
    /\ (settings.sms_enabled /\ settings.phone # NoText) => sends.sms # "none"
    /\ sends.push # "none"

Due(rem) ==
    /\ rem.is_active
    /\ rem.next_feeding_date # NULL
    /\ DateOrd(rem.next_feeding_date) <= now

\* C10: a run dispatches each entry of its list once, whatever the sends
\* did, and every run that finds settings picks up every reminder that is
\* active and due when it scans, so that it is dispatched again on each run.
C10_DueRemindersDispatchedEveryRun ==
    [][/\ query_overdue =>
            \A i \in 1..Len(feeding_reminders) :
                Due(feeding_reminders[i]) =>
                    \E j \in 1..Len(scheduler'.overdue) :
                        scheduler'.overdue[j].row.id = feeding_reminders[i].id
       /\ query_upcoming =>
            \A j \in 1..Len(scheduler.overdue) :
                \E k \in 1..Len(scheduler'.to_notify) :
                    scheduler'.to_notify[k] = scheduler.overdue[j]
       /\ (\E email_ok \in BOOLEAN, sms_ok \in BOOLEAN, push_ok \in BOOLEAN :
                send_notification(email_ok, sms_ok, push_ok)) =>
            /\ scheduler'.idx = scheduler.idx + 1
            /\ Len(outbox') = Len(outbox) + 1
            /\ outbox'[Len(outbox')].feeding = scheduler.to_notify[scheduler.idx]]_vars

(***************************************************************************)
(* Validation of the interval, and the rows a reptile has                  *)
(***************************************************************************)
\* C11: every reminder in the store has feeding_interval_days >= 1, whichever
\* request created or updated it: the set-reminder form or a backup restore.
C11_IntervalAtLeastOne ==
    \A i \in 1..Len(feeding_reminders) : feeding_reminders[i].feeding_interval_days >= 1

(***************************************************************************)
(* set_feeding_reminder on concurrent request threads: add_feeding_reminder *)
(* is a SELECT followed by an UPDATE or an INSERT, each request on its own  *)
(* connection, and feeding_reminders has no UNIQUE on reptile_id.           *)
(***************************************************************************)
\* set_feeding_reminder up to the call of add_feeding_reminder: get_reptile,
\* int() of the form field and the interval check
receive_set_feeding_reminder(t, reptile_id, feeding_interval_days) ==
    /\ requests[t].pc = "idle"
    /\ reptile_id \in reptiles
    /\ requests' = [requests EXCEPT ![t] =
            [IdleRequest EXCEPT
                !.pc = IF IntervalAccepted(feeding_interval_days)
                       THEN "select_existing" ELSE "done",
                !.reptile_id = reptile_id,
                !.requested_interval = feeding_interval_days]]
    /\ UNCHANGED <<tables, now, notification_settings, scheduler, outbox>>

\* add_feeding_reminder: SELECT id FROM feeding_reminders WHERE reptile_id = ?
select_existing_reminder(t) ==
    /\ requests[t].pc = "select_existing"
    /\ requests' = [requests EXCEPT
                      ![t].pc = IF InsertsReminder(feeding_reminders, requests[t].reptile_id)
                                THEN "insert_reminder" ELSE "update_existing"]
    /\ UNCHANGED <<tables, now, notification_settings, scheduler, outbox>>

\* add_feeding_reminder: UPDATE ... SET feeding_interval_days, is_active, commit
update_existing_reminder(t) ==
    /\ requests[t].pc = "update_existing"
    /\ feeding_reminders' =
         [i \in 1..Len(feeding_reminders) |->
             IF feeding_reminders[i].reptile_id = requests[t].reptile_id
             THEN [feeding_reminders[i] EXCEPT
                     !.feeding_interval_days = requests[t].requested_interval,
                     !.is_active = TRUE]
             ELSE feeding_reminders[i]]
    /\ requests' = [requests EXCEPT ![t].pc = "get_feeding_logs"]
    /\ UNCHANGED <<reptiles, feeding_logs, food_inventory, inventory_transactions,
                   sqlite_sequence, now, notification_settings, scheduler, outbox>>

\* add_feeding_reminder: INSERT INTO feeding_reminders, commit
insert_reminder(t) ==
    /\ requests[t].pc = "insert_reminder"
    /\ LET newId == sqlite_sequence.feeding_reminders + 1
       IN  /\ feeding_reminders' =
                Append(feeding_reminders,
                       NewReminder(newId, requests[t].reptile_id,
                                   requests[t].requested_interval))
           /\ sqlite_sequence' = [sqlite_sequence EXCEPT !.feeding_reminders = newId]
    /\ requests' = [requests EXCEPT ![t].pc = "get_feeding_logs"]
    /\ UNCHANGED <<reptiles, feeding_logs, food_inventory, inventory_transactions,
                   now, notification_settings, scheduler, outbox>>

\* recent_feeding = db.get_feeding_logs(reptile_id, limit=1); the dates are
\* updated only when there is one
read_recent_feeding(t) ==
    /\ requests[t].pc = "get_feeding_logs"
    /\ LET recent_feeding == get_feeding_logs_limit1(feeding_logs, reptiles,
                                                     requests[t].reptile_id)
       IN  requests' = IF Len(recent_feeding) > 0
                       THEN [requests EXCEPT
                               ![t].feeding_date = recent_feeding[1].feeding_date,
                               ![t].pc = "select_reminder"]
                       ELSE [requests EXCEPT ![t].pc = "done"]
    /\ UNCHANGED <<tables, now, notification_settings, scheduler, outbox>>

\* animals without a reminder, fed the day before or never; no request under way
InitUpsert ==
    /\ reptiles = 1..MaxReptiles
    /\ feeding_reminders = <<>>
    /\ feeding_logs \in {<<>>, FedLogs(MaxReptiles)}
    /\ food_inventory = <<>>
    /\ inventory_transactions = <<>>
    /\ sqlite_sequence = [reptiles |-> MaxReptiles, feeding_reminders |-> 0,
                          feeding_logs |-> Len(feeding_logs), food_inventory |-> 0]
    /\ now = StartOrd
    /\ notification_settings = NoSettings
    /\ requests = [t \in Threads |-> IdleRequest]
    /\ scheduler = IdleScheduler
    /\ outbox = <<>>

NextUpsert ==
    \/ \E t \in Threads, r \in ReptileIds, n \in Intervals :
            receive_set_feeding_reminder(t, r, n)
    \/ \E t \in Threads : select_existing_reminder(t)
    \/ \E t \in Threads : update_existing_reminder(t)
    \/ \E t \in Threads : insert_reminder(t)
    \/ \E t \in Threads : read_recent_feeding(t)
    \/ \E t \in Threads : select_reminder(t)
    \/ \E t \in Threads : update_reminder(t)

SpecUpsert == InitUpsert /\ [][NextUpsert]_vars

RowsOf(reptile_id) ==
    {i \in 1..Len(feeding_reminders) : feeding_reminders[i].reptile_id = reptile_id}

\* C12: in every state, set-reminder requests running concurrently included,
\* the store holds at most one reminder row per animal.
C12_OneReminderPerAnimal ==
    \A r \in ReptileIds : Cardinality(RowsOf(r)) <= 1

(***************************************************************************)
(* The stock-adding requests: /inventory/add, /inventory/add-bulk and the  *)
(* purchase receipts                                                       *)
(***************************************************************************)
\* get_food_item_by_type_size: exact match on type and size
get_food_item_by_type_size(inv, food_type, food_size) == FindExact(inv, food_type, food_size)

\* the loop of add_inventory_bulk over the items of the form: an item whose
\* SKU exists goes to update_food_quantity with existing quantity + quantity
\* as its quantity_change and the default transaction type; a new one to
\* add_food_item.  [inv, txs, next_id]
RECURSIVE AddBulkItems(_, _, _, _, _)
AddBulkItems(inv, txs, next_id, items, nowOrd) ==
    IF Len(items) = 0 THEN [inv |-> inv, txs |-> txs, next_id |-> next_id]
    ELSE LET item == Head(items)
             i == get_food_item_by_type_size(inv, item.food_type, item.food_size)
             new_quantity == inv[i].quantity + item.quantity
             upd == update_food_quantity(inv, txs, Len(txs) + 1, inv[i].id, new_quantity,
                                         "adjustment", None, nowOrd)
             add == add_food_item(inv, txs, next_id, Len(txs) + 1, item.food_type,
                                  item.food_size, item.quantity, nowOrd)
         IN  IF i # 0
             THEN AddBulkItems(upd.inv, upd.txs, next_id, Tail(items), nowOrd)
             ELSE AddBulkItems(add.inv, add.txs, next_id + 1, Tail(items), nowOrd)

\* the loop of ReptileDatabase.add_purchase_receipt: add_food_item per item
RECURSIVE AddReceiptItems(_, _, _, _, _)
AddReceiptItems(inv, txs, next_id, items, nowOrd) ==
    IF Len(items) = 0 THEN [inv |-> inv, txs |-> txs, next_id |-> next_id]
    ELSE LET item == Head(items)
             i == FindExact(inv, item.food_type, item.food_size)
             add == add_food_item(inv, txs, next_id, Len(txs) + 1, item.food_type,
                                  item.food_size, item.quantity, nowOrd)
         IN  AddReceiptItems(add.inv, add.txs, IF i # 0 THEN next_id ELSE next_id + 1,
                             Tail(items), nowOrd)

\* POST /inventory/add-bulk with items that carry no cost
add_inventory_bulk(items) ==
    /\ UNCHANGED others
    /\ Len(items) > 0
    /\ Len(inventory_transactions) + Len(items) <= MaxTx
    /\ LET res == AddBulkItems(food_inventory, inventory_transactions,
                               sqlite_sequence.food_inventory + 1, items, now)
       IN  /\ res.next_id - 1 <= MaxSkus
           /\ food_inventory' = res.inv
           /\ inventory_transactions' = res.txs
           /\ sqlite_sequence' = [sqlite_sequence EXCEPT !.food_inventory = res.next_id - 1]
    /\ UNCHANGED <<reptiles, feeding_reminders, feeding_logs, now>>

\* POST /inventory/receipt/add and the review of a scanned receipt, dated today
add_purchase_receipt(items) ==
    /\ UNCHANGED others
    /\ Len(items) > 0
    /\ Len(inventory_transactions) + Len(items) <= MaxTx
    /\ LET res == AddReceiptItems(food_inventory, inventory_transactions,
                                  sqlite_sequence.food_inventory + 1, items, now)
       IN  /\ res.next_id - 1 <= MaxSkus
           /\ food_inventory' = res.inv
           /\ inventory_transactions' = res.txs
           /\ sqlite_sequence' = [sqlite_sequence EXCEPT !.food_inventory = res.next_id - 1]
    /\ UNCHANGED <<reptiles, feeding_reminders, feeding_logs, now>>

\* the quantities the stock forms submit
StockQuantities == {1, 2}

FormItems ==
    {[food_type |-> t, food_size |-> z, quantity |-> q] :
        t \in FoodTypes, z \in FoodSizes, q \in StockQuantities}

\* the item lists of a bulk form or a receipt
ItemLists == {<<a>> : a \in FormItems} \cup {<<a, b>> : a \in FormItems, b \in FormItems}

NextStock ==
    \/ \E t \in FoodTypes, z \in FoodSizes, q \in StockQuantities :
            add_inventory_item(t, z, q)
    \/ \E items \in ItemLists : add_inventory_bulk(items)
    \/ \E items \in ItemLists : add_purchase_receipt(items)
    \/ \E k \in SkuIds, q \in Quantities : adjust_inventory(k, q)
    \/ \E k \in SkuIds : delete_inventory_item(k)
    \/ Tick

SpecStock == Init /\ [][NextStock]_vars

\* q items of (t, z) are added in this step, by any of the three requests
AddStock(t, z, q) ==
    LET item == [food_type |-> t, food_size |-> z, quantity |-> q]
    IN  \/ add_inventory_item(t, z, q)
        \/ add_inventory_bulk(<<item>>)
        \/ add_purchase_receipt(<<item>>)

\* C13: adding q of (type, size) appends exactly one 'purchase' transaction
\* of q; when a SKU of that type and size exists its quantity grows by
\* exactly q, and when none exists, in any letter case, a SKU holding q is
\* created.  On the single add, the bulk add and the receipt.
C13_AddStockCreatesOrIncrements ==
    [][\A t \in FoodTypes, z \in FoodSizes, q \in StockQuantities :
          AddStock(t, z, q) =>
             LET i == FindExact(food_inventory, t, z)
                 n == Len(inventory_transactions)
                 m == Len(food_inventory)
             IN  /\ Len(inventory_transactions') = n + 1
                 /\ SubSeq(inventory_transactions', 1, n) = inventory_transactions
                 /\ inventory_transactions'[n + 1].transaction_type = "purchase"
                 /\ inventory_transactions'[n + 1].quantity = q
                 /\ i # 0 =>
                      /\ Len(food_inventory') = m
                      /\ food_inventory'[i].quantity = food_inventory[i].quantity + q
                      /\ inventory_transactions'[n + 1].inventory_id = food_inventory[i].id
                 /\ get_food_item_by_type(food_inventory, t, z) = 0 =>
                      /\ Len(food_inventory') = m + 1
                      /\ food_inventory'[m + 1].food_type = t
                      /\ food_inventory'[m + 1].food_size = z
                      /\ food_inventory'[m + 1].quantity = q
                      /\ inventory_transactions'[n + 1].inventory_id
                           = food_inventory'[m + 1].id]_vars

(***************************************************************************)
(* The transaction log under every request that writes the ledger, the     *)
(* feeding logs or the animals                                             *)
(***************************************************************************)
\* one item of the one food the journal is watched with
JournalItem == [food_type |-> "Rat", food_size |-> "Large", quantity |-> 1]

NextJournal ==
    \/ add_reptile
    \/ add_inventory_item(JournalItem.food_type, JournalItem.food_size, JournalItem.quantity)
    \/ add_inventory_bulk(<<JournalItem>>)
    \/ add_purchase_receipt(<<JournalItem>>)
    \/ \E k \in SkuIds : adjust_inventory(k, 0 - 1)
    \/ \E r \in ReptileIds, k \in SkuIds : log_feeding(r, NoDate, k, 1, TRUE)
    \/ \E k \in SkuIds : delete_inventory_item(k)
    \/ \E l \in LogIds : delete_feeding(l)
    \/ \E r \in ReptileIds : delete_reptile(r)
    \/ restore_data("replace", <<>>, <<>>)
    \/ Tick

SpecJournal == Init /\ [][NextJournal]_vars

PostedSkuIds == 1..(MaxSkus + 1)

NextDebit ==
    \/ \E r \in ReptileIds, k \in PostedSkuIds \cup {None}, q \in FedQuantities :
            log_feeding(r, NoDate, k, q, TRUE)
    \/ \E r \in ReptileIds : disable_feeding_reminder(r)
    \/ \E k \in SkuIds : delete_inventory_item(k)
    \/ Tick

SpecDebit == InitConcurrent /\ [][NextDebit]_vars

\* C15: a feeding that names a SKU which does not exist gets failure from
\* the debit, leaves every quantity and the transaction log as they were, is
\* recorded as a feeding log not marked as deducted, and moves the dates of
\* the animal's active reminder to this feeding.
C15_MissingSkuIsNonFatal ==
    [][\A r \in ReptileIds, k \in PostedSkuIds, q \in FedQuantities :
          (get_food_item(food_inventory, k) = 0 /\ log_feeding(r, NoDate, k, q, TRUE)) =>
             LET n == Len(feeding_logs)
             IN  /\ ~ update_food_quantity(food_inventory, inventory_transactions,
                                           NextTxId, k, 0 - q, "feeding", n + 1, now).ok
                 /\ food_inventory' = food_inventory
                 /\ inventory_transactions' = inventory_transactions
                 /\ Len(feeding_logs') = n + 1
                 /\ SubSeq(feeding_logs', 1, n) = feeding_logs
                 /\ feeding_logs'[n + 1].reptile_id = r
                 /\ feeding_logs'[n + 1].inventory_id = k
                 /\ feeding_logs'[n + 1].feeding_date = get_current_date(now)
                 /\ ~ feeding_logs'[n + 1].auto_deducted
                 /\ \A i \in ActiveReminderRows(feeding_reminders, r) :
                       /\ feeding_reminders'[i].last_fed_date = get_current_date(now)
                       /\ feeding_reminders'[i].next_feeding_date =
                            StrfDate(now + feeding_reminders[i].feeding_interval_days)]_vars

\* C15 witness: a feeding log names a SKU that is not in the inventory, is
\* not marked as deducted and has no transaction, and the animal's reminder
\* carries the date of that feeding
C15_Witness ==
    \E j \in 1..Len(feeding_logs), i \in 1..Len(feeding_reminders) :
        /\ feeding_logs[j].inventory_id # None
        /\ feeding_logs[j].ate
        /\ get_food_item(food_inventory, feeding_logs[j].inventory_id) = 0
        /\ ~ feeding_logs[j].auto_deducted
        /\ \A x \in 1..Len(inventory_transactions) :
              inventory_transactions[x].reference_id # feeding_logs[j].id
        /\ feeding_reminders[i].reptile_id = feeding_logs[j].reptile_id
        /\ feeding_reminders[i].is_active
        /\ feeding_reminders[i].last_fed_date = feeding_logs[j].feeding_date
        /\ feeding_reminders[i].next_feeding_date # NULL

(***************************************************************************)
(* Shopping list: ReptileDatabase.get_shopping_list and upgrade_reptile_food *)
(***************************************************************************)
\* upgrade_reptile_food: the UPDATE of the food preference on every row of
\* the reptile
upgrade_reptile_food(rems, reptile_id, food_type, food_size, quantity_per_feeding) ==
    [i \in 1..Len(rems) |->
        IF rems[i].reptile_id = reptile_id
        THEN [rems[i] EXCEPT !.food_type = food_type, !.food_size = food_size,
                             !.quantity_per_feeding = quantity_per_feeding]
        ELSE rems[i]]

\* POST /reptile/<reptile_id>/upgrade-food: both names and a quantity of at
\* least 1, or nothing is written
upgrade_food(reptile_id, food_type, food_size, quantity_per_feeding) ==
    /\ UNCHANGED others
    /\ reptile_id \in reptiles
    /\ feeding_reminders' =
         IF food_type = NoText \/ food_size = NoText \/ quantity_per_feeding < 1
         THEN feeding_reminders
         ELSE upgrade_reptile_food(feeding_reminders, reptile_id, food_type, food_size,
                                   quantity_per_feeding)
    /\ UNCHANGED <<reptiles, feeding_logs, food_inventory, inventory_transactions,
                   sqlite_sequence, now>>

\* the SELECT of get_shopping_list: active reminders of existing reptiles
\* with a food type, a food size and a next feeding date
ShoppingReminders(rems, reps) ==
    SelectSeq(Joined(rems, reps),
              LAMBDA r : /\ r.is_active
                         /\ r.food_type # NoText
                         /\ r.food_size # NoText
                         /\ r.next_feeding_date # NULL)

\* start_date = max(today_date, next_feeding)
StartOfCount(rem, nowOrd) ==
    IF DateOrd(rem.next_feeding_date) > nowOrd THEN DateOrd(rem.next_feeding_date)
    ELSE nowOrd

\* while current_date <= end_date: feedings_count += 1; current_date += interval
RECURSIVE FeedingsCount(_, _, _)
FeedingsCount(current_date, end_date, interval_days) ==
    IF current_date <= end_date
    THEN 1 + FeedingsCount(current_date + interval_days, end_date, interval_days)
    ELSE 0

\* the while loop never leaves: the date does not advance past end_date
LoopsForever(rem, nowOrd, days_ahead) ==
    /\ rem.feeding_interval_days < 1
    /\ StartOfCount(rem, nowOrd) <= nowOrd + days_ahead

\* food_needs after one more reminder: a dict keyed by (food_type, food_size),
\* kept here in insertion order
AddFoodNeed(food_needs, rem, feedings_count) ==
    LET quantity_needed == feedings_count * rem.quantity_per_feeding
        share == [reptile_id |-> rem.reptile_id, feedings |-> feedings_count,
                  quantity |-> quantity_needed]
        hit == {k \in 1..Len(food_needs) : /\ food_needs[k].food_type = rem.food_type
                                           /\ food_needs[k].food_size = rem.food_size}
    IN  IF feedings_count <= 0 THEN food_needs
        ELSE IF hit # {}
        THEN [k \in 1..Len(food_needs) |->
                IF k \in hit
                THEN [food_needs[k] EXCEPT !.quantity_needed = @ + quantity_needed,
                                           !.reptiles = Append(@, share)]
                ELSE food_needs[k]]
        ELSE Append(food_needs,
                    [food_type |-> rem.food_type, food_size |-> rem.food_size,
                     quantity_needed |-> quantity_needed, reptiles |-> <<share>>])

\* the loop over the reminders that fills food_needs
RECURSIVE FoodNeeds(_, _, _, _)
FoodNeeds(reminders, n, nowOrd, days_ahead) ==
    IF n = 0 THEN <<>>
    ELSE AddFoodNeed(FoodNeeds(reminders, n - 1, nowOrd, days_ahead), reminders[n],
                     FeedingsCount(StartOfCount(reminders[n], nowOrd),
                                   nowOrd + days_ahead,
                                   reminders[n].feeding_interval_days))

\* one entry of shopping_list: the need against the stock of the SKU that
\* get_food_item_by_type finds
ShoppingEntry(needs, inv) ==
    LET i == get_food_item_by_type(inv, needs.food_type, needs.food_size)
        current_stock == IF i = 0 THEN 0 ELSE inv[i].quantity
        shortage == needs.quantity_needed - current_stock
    IN  [food_type |-> needs.food_type, food_size |-> needs.food_size,
         quantity_needed |-> needs.quantity_needed, current_stock |-> current_stock,
         shortage |-> IF shortage > 0 THEN shortage ELSE 0,
         reptiles |-> needs.reptiles]

\* shopping_list.sort(key=shortage, reverse=True): stable, highest first
RECURSIVE SortByShortage(_)
SortByShortage(list) ==
    IF Len(list) = 0 THEN <<>>
    ELSE LET m == CHOOSE i \in 1..Len(list) :
                    \A j \in 1..Len(list) :
                        \/ list[i].shortage > list[j].shortage
                        \/ list[i].shortage = list[j].shortage /\ i <= j
             rest == [k \in 1..(Len(list) - 1) |-> IF k < m THEN list[k] ELSE list[k + 1]]
         IN  <<list[m]>> \o SortByShortage(rest)

\* get_shopping_list for reminders on which every while loop ends
get_shopping_list(rems, reps, inv, nowOrd, days_ahead) ==
    LET reminders == ShoppingReminders(rems, reps)
        food_needs == FoodNeeds(reminders, Len(reminders), nowOrd, days_ahead)
    IN  SortByShortage([k \in 1..Len(food_needs) |-> ShoppingEntry(food_needs[k], inv)])

\* where a GET /shopping-list?days=H leaves the request: answered with the
\* list, or in a while loop that never ends
ListRequest(t, days_ahead) ==
    LET reminders == ShoppingReminders(feeding_reminders, reptiles)
    IN  IF \E n \in 1..Len(reminders) : LoopsForever(reminders[n], now, days_ahead)
        THEN [IdleRequest EXCEPT !.pc = "looping", !.days_ahead = days_ahead]
        ELSE [IdleRequest EXCEPT !.pc = "listed", !.days_ahead = days_ahead]

\* mutant: the list books every shortage it shows as stock of the SKU
shopping_list_booking(t, days_ahead) ==
    /\ requests[t].pc = "idle"
    /\ requests' = [requests EXCEPT ![t] = ListRequest(t, days_ahead)]
    /\ food_inventory' =
         [i \in 1..Len(food_inventory) |->
             LET list == get_shopping_list(feeding_reminders, reptiles, food_inventory,
                                           now, days_ahead)
                 mine == {k \in 1..Len(list) :
                            get_food_item_by_type(food_inventory, list[k].food_type,
                                                  list[k].food_size) = i}
             IN  IF mine = {} THEN food_inventory[i]
                 ELSE [food_inventory[i] EXCEPT
                         !.quantity = @ + list[CHOOSE k \in mine : TRUE].shortage]]
    /\ UNCHANGED <<reptiles, feeding_reminders, feeding_logs, inventory_transactions,
                   sqlite_sequence, now, notification_settings, scheduler, outbox>>

\* GET /shopping-list?days=H
shopping_list(t, days_ahead) ==
    /\ requests[t].pc = "idle"
    /\ requests' = [requests EXCEPT ![t] = ListRequest(t, days_ahead)]
    /\ UNCHANGED <<tables, now, notification_settings, scheduler, outbox>>

\* the horizons asked for: today only, and the longest one
Horizons == {0, MaxAhead}

\* the quantities per feeding the upgrade form submits
FeedingQuantities == {0, 2}

NextShopping ==
    \/ \E t \in Threads, H \in Horizons : shopping_list(t, H)
    \/ \E r \in AnimalIds, f \in FoodTypes, z \in FoodSizes, q \in FeedingQuantities :
            upgrade_food(r, f, z, q)
    \/ \E r \in AnimalIds : disable_feeding_reminder(r)
    \/ \E k \in SkuIds : adjust_inventory(k, 0 - 1)
    \/ Tick

\* the animals fed the day before, one stocked SKU, no request under way
InitShopping ==
    /\ reptiles = 1..MaxAnimals
    /\ feeding_reminders = FedReminders(MaxAnimals)
    /\ feeding_logs = FedLogs(MaxAnimals)
    /\ food_inventory = StockedLedger(1).inv
    /\ inventory_transactions = StockedLedger(1).txs
    /\ sqlite_sequence = [reptiles |-> MaxAnimals, feeding_reminders |-> MaxAnimals,
                          feeding_logs |-> MaxAnimals, food_inventory |-> 1]
    /\ now = StartOrd
    /\ notification_settings = NoSettings
    /\ requests = [t \in Threads |-> IdleRequest]
    /\ scheduler = IdleScheduler
    /\ outbox = <<>>

SpecShopping == InitShopping /\ [][NextShopping]_vars

BirthParses(date_of_birth) ==
    /\ date_of_birth.fmt = "ymd"
    /\ date_of_birth.a >= 1
    /\ date_of_birth.b \in 1..12
    /\ date_of_birth.c >= 1
    /\ date_of_birth.c <= DaysInMonth(date_of_birth.a, date_of_birth.b)

\* (datetime.now() - dob).days: whole days, whatever the time of day
AgeDays(date_of_birth, nowOrd) == nowOrd - DateOrd(date_of_birth)

\* mutant: a birth date in the future is not taken for a hatchling
get_age_category_unborn(date_of_birth, nowOrd) ==
    IF date_of_birth = NULL \/ ~ BirthParses(date_of_birth) THEN "adult"
    ELSE LET age_days == AgeDays(date_of_birth, nowOrd)
         IN  IF age_days >= 0 /\ age_days * 100 < 6 * 3044 THEN "hatchling"
             ELSE IF age_days >= 0 /\ age_days * 100 < 12 * 3044 THEN "juvenile"
             ELSE IF age_days >= 0 /\ age_days * 100 < 24 * 3044 THEN "sub-adult"
             ELSE "adult"

\* get_age_category: age_months = age_days / 30.44 against 6, 12 and 24,
\* compared here as age_days * 100 against months * 3044; "adult" without a
\* birth date and when the text does not parse
get_age_category(date_of_birth, nowOrd) ==
    IF date_of_birth = NULL \/ ~ BirthParses(date_of_birth) THEN "adult"
    ELSE LET age_days == AgeDays(date_of_birth, nowOrd)
         IN  IF age_days * 100 < 6 * 3044 THEN "hatchling"
             ELSE IF age_days * 100 < 12 * 3044 THEN "juvenile"
             ELSE IF age_days * 100 < 24 * 3044 THEN "sub-adult"
             ELSE "adult"

\* GET /reptile/<reptile_id> for a reptile with this date_of_birth: the age
\* category of its feeding recommendation
reptile_details(t, date_of_birth) ==
    /\ requests[t].pc = "idle"
    /\ requests' = [requests EXCEPT ![t] =
            [IdleRequest EXCEPT
                !.pc = "recommended",
                !.date_of_birth = date_of_birth,
                !.age_category = get_age_category(date_of_birth, now)]]
    /\ UNCHANGED <<tables, now, notification_settings, scheduler, outbox>>

\* birth dates on both sides of each bucket boundary for StartDate, one in
\* the future, one that is no date of the calendar, one that is no date at
\* all and none
BirthDates ==
    {Ymd(2024, 2, 29), Ymd(2024, 2, 28), Ymd(2023, 8, 30), Ymd(2023, 8, 29),
     Ymd(2023, 2, 28), Ymd(2023, 2, 27), Ymd(2022, 2, 28), Ymd(2022, 2, 27),
     Ymd(2023, 2, 29), BadDate, NULL}

\* an empty database on any of the days of the clock
InitClassifier ==
    /\ reptiles = {}
    /\ feeding_reminders = <<>>
    /\ feeding_logs = <<>>
    /\ food_inventory = <<>>
    /\ inventory_transactions = <<>>
    /\ sqlite_sequence = [reptiles |-> 0, feeding_reminders |-> 0, feeding_logs |-> 0,
                          food_inventory |-> 0]
    /\ now \in StartOrd..(StartOrd + MaxDays)
    /\ notification_settings = NoSettings
    /\ requests = [t \in Threads |-> IdleRequest]
    /\ scheduler = IdleScheduler
    /\ outbox = <<>>

NextClassifier == \E t \in Threads, d \in BirthDates : reptile_details(t, d)

SpecClassifier == InitClassifier /\ [][NextClassifier]_vars

\* hatchling < juvenile < sub-adult < adult
CategoryRank(c) ==
    CASE c = "hatchling" -> 1
      [] c = "juvenile"  -> 2
      [] c = "sub-adult" -> 3
      [] OTHER           -> 4

\* the request classified a birth date that is a date
Classified(t) ==
    /\ requests[t].pc = "recommended"
    /\ requests[t].date_of_birth # NULL
    /\ BirthParses(requests[t].date_of_birth)

\* C17: on one day, of two animals with birth dates the older one is never
\* in a younger category, and the categories change at 6, 12 and 24 months
\* of 30.44 days: hatchling below 6, juvenile below 12, sub-adult below 24.
C17_AgeCategoryMonotone ==
    /\ \A t \in Threads, u \in Threads :
          (/\ Classified(t)
           /\ Classified(u)
           /\ AgeDays(requests[t].date_of_birth, now)
                <= AgeDays(requests[u].date_of_birth, now)) =>
              CategoryRank(requests[t].age_category)
                <= CategoryRank(requests[u].age_category)
    /\ \A t \in Threads :
          Classified(t) =>
             LET a == AgeDays(requests[t].date_of_birth, now) * 100
                 c == requests[t].age_category
             IN  /\ c = "hatchling" <=> a < 6 * 3044
                 /\ c = "juvenile"  <=> (a >= 6 * 3044 /\ a < 12 * 3044)
                 /\ c = "sub-adult" <=> (a >= 12 * 3044 /\ a < 24 * 3044)
                 /\ c = "adult"     <=> a >= 24 * 3044

\* C17 witness: an animal born after today is a hatchling and one a day
\* past 12 months is a sub-adult
C17_Witness ==
    \E t \in Threads, u \in Threads :
        /\ Classified(t)
        /\ Classified(u)
        /\ AgeDays(requests[t].date_of_birth, now) < 0
        /\ requests[t].age_category = "hatchling"
        /\ AgeDays(requests[u].date_of_birth, now) = 366
        /\ requests[u].age_category = "sub-adult"

(***************************************************************************)
(* The overdue list                                                        *)
(***************************************************************************)
\* the stored reminders that are active and have a next feeding date on or
\* before the day nowOrd
DueReminderIds(nowOrd) ==
    {feeding_reminders[i].id : i \in
        {j \in 1..Len(feeding_reminders) :
            /\ feeding_reminders[j].is_active
            /\ feeding_reminders[j].next_feeding_date # NULL
            /\ DateOrd(feeding_reminders[j].next_feeding_date) <= nowOrd}}

\* rows in ascending order of next_feeding_date, none twice
AscendingByNext(rows) ==
    /\ \A i \in 1..Len(rows), j \in 1..Len(rows) :
          i < j => /\ DateOrd(rows[i].next_feeding_date) <= DateOrd(rows[j].next_feeding_date)
                   /\ rows[i].id # rows[j].id

\* C18: in every reachable state get_overdue_feedings returns exactly the
\* active reminders whose next_feeding_date is set and on or before today,
\* none missing and none extra, in ascending order of next_feeding_date.
C18_OverdueExact ==
    LET overdue == get_overdue_feedings(feeding_reminders, reptiles, now)
    IN  /\ ReminderIdsOf(overdue) = DueReminderIds(now)
        /\ AscendingByNext(overdue)

(***************************************************************************)
(* The upcoming list                                                       *)
(***************************************************************************)
\* the stored reminders that are active and have a next feeding date after
\* the day nowOrd and at most days_ahead days after it
ComingReminderIds(nowOrd, days_ahead) ==
    {feeding_reminders[i].id : i \in
        {j \in 1..Len(feeding_reminders) :
            /\ feeding_reminders[j].is_active
            /\ feeding_reminders[j].next_feeding_date # NULL
            /\ nowOrd < DateOrd(feeding_reminders[j].next_feeding_date)
            /\ DateOrd(feeding_reminders[j].next_feeding_date) <= nowOrd + days_ahead}}

\* C19: in every reachable state and for every days_ahead,
\* get_upcoming_feedings returns exactly the active reminders whose
\* next_feeding_date is after today and at most days_ahead days after it (the
\* last day of the window included, today excluded), in ascending order of
\* next_feeding_date.
C19_UpcomingExact ==
    \A k \in 0..MaxAhead :
        LET upcoming == get_upcoming_feedings(feeding_reminders, reptiles, now, k)
        IN  /\ ReminderIdsOf(upcoming) = ComingReminderIds(now, k)
            /\ \A i \in 1..Len(upcoming), j \in 1..Len(upcoming) :
                  i < j => /\ DateOrd(upcoming[i].next_feeding_date)
                                <= DateOrd(upcoming[j].next_feeding_date)
                           /\ upcoming[i].id # upcoming[j].id

(***************************************************************************)
(* Deactivated reminders                                                   *)
(***************************************************************************)
\* the feeding dates submitted while reminders are switched off and on: the
\* form left empty (today) and the day before StartDate
DeactivateFeedingDates == {NoDate, Ymd(2024, 2, 27)}

\* one fresh reminder per animal and one stocked SKU, before any feeding
InitDeactivate ==
    /\ reptiles = 1..MaxReptiles
    /\ feeding_reminders = FreshReminders(MaxReptiles)
    /\ feeding_logs = <<>>
    /\ food_inventory = StockedLedger(1).inv
    /\ inventory_transactions = StockedLedger(1).txs
    /\ sqlite_sequence = [reptiles |-> MaxReptiles, feeding_reminders |-> MaxReptiles,
                          feeding_logs |-> 0, food_inventory |-> 1]
    /\ now = StartOrd
    /\ notification_settings = NoSettings
    /\ requests = [t \in Threads |-> IdleRequest]
    /\ scheduler = IdleScheduler
    /\ outbox = <<>>

\* reminders switched off and on again between feedings and food upgrades
NextDeactivate ==
    \/ \E r \in ReptileIds : disable_feeding_reminder(r)
    \/ \E r \in ReptileIds, d \in DeactivateFeedingDates : log_feeding(r, d, None, 1, TRUE)
    \/ \E r \in ReptileIds, n \in {1, 2} : set_feeding_reminder(r, n)
    \/ \E r \in ReptileIds : upgrade_food(r, "Rat", "Large", 2)
    \/ \E l \in LogIds : delete_feeding(l)
    \/ Tick

SpecDeactivate == InitDeactivate /\ [][NextDeactivate]_vars

\* the reminder rows of reptile r in rems
RowsFor(rems, r) == {i \in 1..Len(rems) : rems[i].reptile_id = r}

\* an inactive reminder is in no overdue list, no upcoming list and no
\* shopping list of the store
InactiveUnlisted(rems, reps, inv, nowOrd) ==
    \A i \in 1..Len(rems) :
        ~ rems[i].is_active =>
            /\ rems[i].id \notin ReminderIdsOf(get_overdue_feedings(rems, reps, nowOrd))
            /\ \A k \in 0..MaxAhead :
                  /\ rems[i].id
                        \notin ReminderIdsOf(get_upcoming_feedings(rems, reps, nowOrd, k))
                  /\ LET list == get_shopping_list(rems, reps, inv, nowOrd, k)
                     IN  \A e \in 1..Len(list) :
                            \A n \in 1..Len(list[e].reptiles) :
                               list[e].reptiles[n].reptile_id # rems[i].reptile_id

\* C20: a deactivation sets is_active to false on the animal's reminder and
\* leaves the row, its interval, its food preference and its dates as they
\* were; after every step an inactive reminder is in none of the overdue list,
\* the upcoming list and the shopping list; and a feeding request for an
\* animal whose reminder is inactive leaves the reminder's dates unchanged.
C20_DeactivateKeepsRecord ==
    [][/\ \A r \in ReptileIds :
             disable_feeding_reminder(r) =>
                /\ Len(feeding_reminders') = Len(feeding_reminders)
                /\ \A i \in 1..Len(feeding_reminders) :
                      feeding_reminders'[i] =
                         IF feeding_reminders[i].reptile_id = r
                         THEN [feeding_reminders[i] EXCEPT !.is_active = FALSE]
                         ELSE feeding_reminders[i]
       /\ InactiveUnlisted(feeding_reminders', reptiles', food_inventory', now')
       /\ \A r \in ReptileIds :
             ((\E d \in DeactivateFeedingDates : log_feeding(r, d, None, 1, TRUE))
              /\ ~ HasActiveReminder(r)) =>
                /\ Len(feeding_reminders') = Len(feeding_reminders)
                /\ \A i \in RowsFor(feeding_reminders, r) :
                      /\ feeding_reminders'[i].last_fed_date
                            = feeding_reminders[i].last_fed_date
                      /\ feeding_reminders'[i].next_feeding_date
                            = feeding_reminders[i].next_feeding_date]_vars

\* C20 witness: a deactivated reminder that keeps its interval, its food
\* preference and both its dates, is due today and whose animal has a
\* feeding log
C20_Witness ==
    \E i \in 1..Len(feeding_reminders) :
        /\ ~ feeding_reminders[i].is_active
        /\ feeding_reminders[i].feeding_interval_days = 2
        /\ feeding_reminders[i].food_type = "Rat"
        /\ feeding_reminders[i].last_fed_date # NULL
        /\ feeding_reminders[i].next_feeding_date # NULL
        /\ DateOrd(feeding_reminders[i].next_feeding_date) <= now
        /\ \E l \in 1..Len(feeding_logs) :
              feeding_logs[l].reptile_id = feeding_reminders[i].reptile_id

(***************************************************************************)
(* The quantities of the shopping list                                     *)
(***************************************************************************)
\* two of the food types the upgrade form offers
OfferedFoodTypes == {"Rat", "Mouse"}

\* the quantities per feeding the upgrade form submits here
OfferedQuantities == {1, 2}

\* fed animals whose food preferences change, whose reminders are switched
\* off and who are deleted, day after day
NextAggregate ==
    \/ \E r \in AnimalIds, f \in OfferedFoodTypes, z \in FoodSizes, q \in OfferedQuantities :
            upgrade_food(r, f, z, q)
    \/ \E r \in AnimalIds : disable_feeding_reminder(r)
    \/ \E r \in AnimalIds : delete_reptile(r)
    \/ Tick

SpecAggregate == InitShopping /\ [][NextAggregate]_vars

\* the feedings of reminder rem on start, start + interval, ... up to the day
\* nowOrd + H, start being the later of today and next_feeding_date, times
\* the quantity per feeding
NeedOfReminder(rem, nowOrd, H) ==
    LET start == IF DateOrd(rem.next_feeding_date) > nowOrd
                 THEN DateOrd(rem.next_feeding_date) ELSE nowOrd
        end == nowOrd + H
    IN  IF start > end THEN 0
        ELSE (((end - start) \div rem.feeding_interval_days) + 1) * rem.quantity_per_feeding

\* the sum of NeedOfReminder over the first n stored reminders that are
\* active, have a next feeding date and prefer food f of size z
RECURSIVE NeedOfFood(_, _, _, _)
NeedOfFood(n, f, z, H) ==
    IF n = 0 THEN 0
    ELSE NeedOfFood(n - 1, f, z, H)
         + (IF /\ feeding_reminders[n].is_active
               /\ feeding_reminders[n].food_type = f
               /\ feeding_reminders[n].food_size = z
               /\ feeding_reminders[n].next_feeding_date # NULL
            THEN NeedOfReminder(feeding_reminders[n], now, H)
            ELSE 0)

\* C21: in every reachable state and for every horizon H, the shopping list
\* has for each food type and size one entry whose quantity_needed is the sum,
\* over all active reminders preferring that food, of the feedings on start,
\* start + interval, ... that are on or before today + H (start being the
\* later of today and next_feeding_date) times quantity_per_feeding, and no
\* entry where that sum is 0.
C21_ShoppingListCountsFeedings ==
    \A H \in 0..MaxAhead, f \in OfferedFoodTypes, z \in FoodSizes :
        LET list == get_shopping_list(feeding_reminders, reptiles, food_inventory, now, H)
            hits == {e \in 1..Len(list) : list[e].food_type = f /\ list[e].food_size = z}
            need == NeedOfFood(Len(feeding_reminders), f, z, H)
        IN  IF need = 0 THEN hits = {}
            ELSE /\ Cardinality(hits) = 1
                 /\ \A e \in hits : list[e].quantity_needed = need

(***************************************************************************)
(* Consumption forecast: ReptileDatabase.get_inventory_forecast            *)
(***************************************************************************)
\* days_lookback of get_inventory_forecast
LookbackDays == 30

\* feeding_date >= date('now', '-N days'), a comparison of TEXT values
InLookback(feeding_date, nowOrd, days_lookback) ==
    ~ KeyLess(DateTextKey(feeding_date), DateTextKey(StrfDate(nowOrd - days_lookback)))

\* the rows the consumption query of get_inventory_forecast aggregates: the
\* feeding logs of the item that were auto-deducted and eaten, in the window
ConsumptionRows(logs, inventory_id, nowOrd, days_lookback) ==
    SelectSeq(logs, LAMBDA l : /\ l.inventory_id = inventory_id
                               /\ l.auto_deducted
                               /\ l.ate
                               /\ InLookback(l.feeding_date, nowOrd, days_lookback))

\* SUM(quantity)
RECURSIVE SumQuantity(_)
SumQuantity(rows) ==
    IF Len(rows) = 0 THEN 0 ELSE Head(rows).quantity + SumQuantity(Tail(rows))

\* get_inventory_forecast(inventory_id, days_lookback): the consumption data
\* of the item's forecast, <<>> when there is no such item
get_inventory_forecast(inv, logs, inventory_id, nowOrd, days_lookback) ==
    LET i == get_food_item(inv, inventory_id)
        rows == ConsumptionRows(logs, inventory_id, nowOrd, days_lookback)
    IN  IF i = 0 THEN <<>>
        ELSE <<[inventory_id |-> inventory_id,
                current_quantity |-> inv[i].quantity,
                feeding_count |-> Len(rows),
                total_consumed |-> SumQuantity(rows),
                days_analyzed |-> days_lookback]>>

\* the sum of the magnitudes of the 'feeding' transactions of the SKU dated
\* inside the window, over the first n transactions of the log
RECURSIVE FedFromLedger(_, _, _, _)
FedFromLedger(n, inventory_id, nowOrd, days_lookback) ==
    IF n = 0 THEN 0
    ELSE FedFromLedger(n - 1, inventory_id, nowOrd, days_lookback)
         + (IF /\ inventory_transactions[n].inventory_id = inventory_id
               /\ inventory_transactions[n].transaction_type = "feeding"
               /\ DateOrd(inventory_transactions[n].transaction_date)
                     >= nowOrd - days_lookback
            THEN IF inventory_transactions[n].quantity < 0
                 THEN 0 - inventory_transactions[n].quantity
                 ELSE inventory_transactions[n].quantity
            ELSE 0)

\* C22: in every reachable state the forecast of every SKU has a
\* total_consumed equal to the sum of the magnitudes of the SKU's 'feeding'
\* transactions of the lookback window.
C22_ConsumedFromTransactionLog ==
    \A i \in 1..Len(food_inventory) :
        LET forecast == get_inventory_forecast(food_inventory, feeding_logs,
                                               food_inventory[i].id, now, LookbackDays)
        IN  /\ Len(forecast) = 1
            /\ forecast[1].total_consumed
                 = FedFromLedger(Len(inventory_transactions), food_inventory[i].id,
                                 now, LookbackDays)

(***************************************************************************)
(* Next-feeding predictor: feeding_schedules.py                            *)
(***************************************************************************)
\* the schedule most snakes of FEEDING_SCHEDULES share
SnakeSchedule(age_category) ==
    CASE age_category = "hatchling" -> <<5, 7, 5>>
      [] age_category = "juvenile"  -> <<7, 10, 7>>
      [] age_category = "sub-adult" -> <<10, 14, 10>>
      [] OTHER                      -> <<14, 21, 14>>

GeckoSchedule(age_category) ==
    CASE age_category = "hatchling" -> <<1, 2, 1>>
      [] age_category = "juvenile"  -> <<2, 3, 2>>
      [] OTHER                      -> <<3, 4, 3>>

\* FEEDING_SCHEDULES[species_key][age_category]: (min, max, recommended)
FEEDING_SCHEDULES(species_key, age_category) ==
    CASE species_key \in {"Ball Python", "Corn Snake", "King Snake", "Milk Snake",
                          "Carpet Python"} -> SnakeSchedule(age_category)
      [] species_key = "Boa Constrictor" ->
            IF age_category = "adult" THEN <<14, 28, 14>> ELSE SnakeSchedule(age_category)
      [] species_key = "Bearded Dragon" ->
            CASE age_category = "hatchling" -> <<1, 1, 1>>
              [] age_category = "juvenile"  -> <<1, 2, 1>>
              [] OTHER                      -> <<2, 3, 2>>
      [] species_key \in {"Leopard Gecko", "Crested Gecko"} -> GeckoSchedule(age_category)
      [] species_key = "Blue Tongue Skink" ->
            CASE age_category = "hatchling" -> <<2, 3, 2>>
              [] age_category = "juvenile"  -> <<3, 4, 3>>
              [] age_category = "sub-adult" -> <<4, 5, 4>>
              [] OTHER                      -> <<5, 7, 5>>
      [] OTHER ->
            IF age_category = "hatchling" THEN <<5, 7, 7>> ELSE SnakeSchedule(age_category)

\* FEEDING_SCHEDULES.keys() in declaration order, "default" last
SpeciesKeys ==
    <<"Ball Python", "Corn Snake", "Boa Constrictor", "King Snake", "Milk Snake",
      "Carpet Python", "Bearded Dragon", "Leopard Gecko", "Crested Gecko",
      "Blue Tongue Skink", "default">>

\* str.lower() on the species names in use
LowerName(s) ==
    CASE s = "Ball Python"       -> "ball python"
      [] s = "Corn Snake"        -> "corn snake"
      [] s = "Boa Constrictor"   -> "boa constrictor"
      [] s = "King Snake"        -> "king snake"
      [] s = "Milk Snake"        -> "milk snake"
      [] s = "Carpet Python"     -> "carpet python"
      [] s = "Bearded Dragon"    -> "bearded dragon"
      [] s = "Leopard Gecko"     -> "leopard gecko"
      [] s = "Crested Gecko"     -> "crested gecko"
      [] s = "Blue Tongue Skink" -> "blue tongue skink"
      [] s = "Python"            -> "python"
      [] s = "Iguana"            -> "iguana"
      [] OTHER                   -> s

\* a in b for the lower-case names in use: equal, or "python" inside the two
\* python keys
Within(a, b) == a = b \/ (a = "python" /\ b \in {"ball python", "carpet python"})

\* get_feeding_interval: the schedule of the first key that contains the
\* species or is contained in it, else the default schedule
get_feeding_interval(species, date_of_birth, nowOrd) ==
    LET age_category == get_age_category(date_of_birth, nowOrd)
        species_lower == LowerName(species)
        hits == {k \in 1..Len(SpeciesKeys) :
                    \/ Within(LowerName(SpeciesKeys[k]), species_lower)
                    \/ Within(species_lower, LowerName(SpeciesKeys[k]))}
    IN  IF hits = {} THEN FEEDING_SCHEDULES("default", age_category)
        ELSE FEEDING_SCHEDULES(SpeciesKeys[CHOOSE k \in hits : \A j \in hits : k <= j],
                               age_category)

\* get_feeding_logs(reptile_id, limit): the reptile's logs by feeding_date
\* text, greatest first, rows of equal text in rowid order
RECURSIVE SortByDateDesc(_)
SortByDateDesc(rows) ==
    IF Len(rows) = 0 THEN <<>>
    ELSE LET m == CHOOSE i \in 1..Len(rows) :
                    \A j \in 1..Len(rows) :
                        \/ KeyLess(DateTextKey(rows[j].feeding_date),
                                   DateTextKey(rows[i].feeding_date))
                        \/ /\ DateTextKey(rows[j].feeding_date)
                                = DateTextKey(rows[i].feeding_date)
                           /\ i <= j
             rest == [k \in 1..(Len(rows) - 1) |-> IF k < m THEN rows[k] ELSE rows[k + 1]]
         IN  <<rows[m]>> \o SortByDateDesc(rest)

get_feeding_logs(logs, reps, reptile_id, limit) ==
    LET sorted == SortByDateDesc(SelectSeq(logs, LAMBDA l : l.reptile_id = reptile_id
                                                           /\ l.reptile_id \in reps))
    IN  IF Len(sorted) > limit THEN SubSeq(sorted, 1, limit) ELSE sorted

\* intervals: abs((date1 - date2).days) of adjacent history entries
DayDeltas(feeding_history) ==
    [i \in 1..(Len(feeding_history) - 1) |->
        LET d == DateOrd(feeding_history[i].feeding_date)
                 - DateOrd(feeding_history[i + 1].feeding_date)
        IN  IF d < 0 THEN 0 - d ELSE d]

RECURSIVE SumOf(_)
SumOf(ns) == IF Len(ns) = 0 THEN 0 ELSE Head(ns) + SumOf(Tail(ns))

\* mutant: the average cut to a whole number instead of rounded
PyRoundDown(total, n) == total \div n

\* round(total / n) of Python 3: to the nearest integer, a half to the even one
PyRound(total, n) ==
    LET q == total \div n
        r == total % n
    IN  IF 2 * r < n THEN q
        ELSE IF 2 * r > n THEN q + 1
        ELSE IF q % 2 = 0 THEN q ELSE q + 1

\* the status of suggest_next_feeding_date
SuggestionStatus(days_until) ==
    IF days_until < 0 THEN "overdue"
    ELSE IF days_until = 0 THEN "today"
    ELSE IF days_until = 1 THEN "tomorrow"
    ELSE IF days_until <= 2 THEN "soon"
    ELSE "scheduled"

\* (suggested_date - datetime.now()).days: suggested_date is a midnight, now
\* is nowSeconds seconds into the day nowOrd, and .days is the floor
DaysUntil(suggestedOrd, nowOrd, nowSeconds) ==
    IF nowSeconds > 0 THEN suggestedOrd - nowOrd - 1 ELSE suggestedOrd - nowOrd

\* suggest_next_feeding_date; NoSuggestion when a strptime raises
suggest_next_feeding_date(species, last_feeding_date, date_of_birth, feeding_history, nowOrd, nowSeconds) ==
    LET schedule == get_feeding_interval(species, date_of_birth, nowOrd)
        min_days == schedule[1]
        max_days == schedule[2]
        averaging == Len(feeding_history) >= 3
        intervals == DayDeltas(feeding_history)
        total == SumOf(intervals)
        n == Len(intervals)
        recommended_days == IF averaging /\ min_days * n <= total /\ total <= max_days * n
                            THEN PyRound(total, n)
                            ELSE schedule[3]
        suggested == DateOrd(last_feeding_date) + recommended_days
        days_until == DaysUntil(suggested, nowOrd, nowSeconds)
    IN  IF \/ ~ BirthParses(last_feeding_date)
           \/ averaging /\ \E i \in 1..Len(feeding_history) :
                               ~ BirthParses(feeding_history[i].feeding_date)
        THEN NoSuggestion
        ELSE [suggested_date |-> StrfDate(suggested),
              days_until |-> days_until,
              status |-> SuggestionStatus(days_until),
              recommended_interval |-> recommended_days,
              min_days |-> min_days, max_days |-> max_days,
              age_category |-> get_age_category(date_of_birth, nowOrd),
              confidence |-> IF Len(feeding_history) >= 3 THEN "high" ELSE "medium"]

\* get_feeding_recommendation: the table's entry without feeding logs, else
\* suggest_next_feeding_date from the first log of the list
get_feeding_recommendation(species, date_of_birth, feeding_logs_list, nowOrd, nowSeconds) ==
    IF Len(feeding_logs_list) = 0
    THEN LET schedule == get_feeding_interval(species, date_of_birth, nowOrd)
         IN  [suggested_date |-> NULL, days_until |-> 0, status |-> "no_history",
              recommended_interval |-> schedule[3],
              min_days |-> schedule[1], max_days |-> schedule[2],
              age_category |-> get_age_category(date_of_birth, nowOrd),
              confidence |-> "low"]
    ELSE suggest_next_feeding_date(species, feeding_logs_list[1].feeding_date,
                                   date_of_birth, feeding_logs_list, nowOrd, nowSeconds)

\* GET /reptile/<reptile_id> for a reptile of this species and birth date,
\* now_seconds seconds into the day: the feeding suggestion of the page
reptile_details_suggestion(t, reptile_id, species, date_of_birth, now_seconds) ==
    /\ requests[t].pc = "idle"
    /\ reptile_id \in reptiles
    /\ requests' = [requests EXCEPT ![t] =
            [IdleRequest EXCEPT
                !.pc = "suggested",
                !.reptile_id = reptile_id,
                !.species = species,
                !.date_of_birth = date_of_birth,
                !.now_seconds = now_seconds,
                !.suggestion =
                    get_feeding_recommendation(
                        species, date_of_birth,
                        get_feeding_logs(feeding_logs, reptiles, reptile_id, 10),
                        now, now_seconds)]]
    /\ UNCHANGED <<tables, now, notification_settings, scheduler, outbox>>

\* the feeding logs of reptile 1 fed on the days StartOrd - offsets[i]
HistoryOf(offsets) ==
    [i \in 1..Len(offsets) |->
        NewFeedingLog(i, 1, StrfDate(StartOrd - offsets[i]), None, 1, TRUE)]

\* feeding histories: none, one and two feedings, feedings whose average
\* interval is inside, on the bounds of and outside the ranges of the table,
\* whole, half and thirds, and one with a date that carries a time
Histories ==
    {HistoryOf(<<>>), HistoryOf(<<0>>), HistoryOf(<<1>>), HistoryOf(<<2>>),
     HistoryOf(<<0, 7>>),
     HistoryOf(<<21, 13, 6, 0>>), HistoryOf(<<1, 7, 14>>), HistoryOf(<<0, 7, 13>>),
     HistoryOf(<<0, 5, 10>>), HistoryOf(<<0, 7, 14>>), HistoryOf(<<0, 7, 15>>),
     HistoryOf(<<0, 2, 5>>), HistoryOf(<<2, 3, 4>>), HistoryOf(<<0, 14, 35>>),
     HistoryOf(<<0, 6, 13, 20>>), HistoryOf(<<0, 6, 12, 19>>),
     [HistoryOf(<<0, 7, 14>>) EXCEPT ![2].feeding_date = YmdHms(2024, 2, 21)]}

\* the species of the animals looked at: one inside two keys of the table,
\* one key of the table and one the table does not have
PredictorSpecies == {"Python", "Bearded Dragon", "Iguana"}

\* no birth date (adult) and a hatchling's
PredictorBirthDates == {NULL, Ymd(2024, 1, 1)}

\* midnight sharp and noon
TimesOfDay == {0, 43200}

\* one animal with a feeding history, on any of the days of the clock
InitPredictor ==
    /\ reptiles = {1}
    /\ feeding_reminders = <<>>
    /\ feeding_logs \in Histories
    /\ food_inventory = <<>>
    /\ inventory_transactions = <<>>
    /\ sqlite_sequence = [reptiles |-> 1, feeding_reminders |-> 0,
                          feeding_logs |-> Len(feeding_logs), food_inventory |-> 0]
    /\ now \in StartOrd..(StartOrd + MaxDays)
    /\ notification_settings = NoSettings
    /\ requests = [t \in Threads |-> IdleRequest]
    /\ scheduler = IdleScheduler
    /\ outbox = <<>>

\* the page of the animal is asked for once
NextPredictor ==
    \E s \in PredictorSpecies, d \in PredictorBirthDates, h \in TimesOfDay :
        reptile_details_suggestion(1, 1, s, d, h)

SpecPredictor == InitPredictor /\ [][NextPredictor]_vars

\* the request has a suggestion computed from a feeding history
Suggested(t) ==
    /\ requests[t].pc = "suggested"
    /\ requests[t].suggestion.status \notin {"none", "no_history"}

\* the history a suggestion was computed from
HistoryOfReptile == get_feeding_logs(feeding_logs, reptiles, 1, 10)

\* the sum of the absolute day differences of adjacent events of the history
RECURSIVE DeltaSum(_)
DeltaSum(n) ==
    IF n <= 1 THEN 0
    ELSE LET d == DateOrd(HistoryOfReptile[n - 1].feeding_date)
                  - DateOrd(HistoryOfReptile[n].feeding_date)
         IN  DeltaSum(n - 1) + (IF d < 0 THEN 0 - d ELSE d)

\* the average of the deltas lies in [min, max] of the suggestion's entry
AverageAccepted(t) ==
    LET n == Len(HistoryOfReptile) - 1
        total == DeltaSum(Len(HistoryOfReptile))
    IN  /\ Len(HistoryOfReptile) >= 3
        /\ requests[t].suggestion.min_days * n <= total
        /\ total <= requests[t].suggestion.max_days * n

\* C23: every suggestion computed from a history of at least 3 events whose
\* average day-delta lies in [min, max] of the species and age entry
\* recommends the whole number nearest to that average; every other
\* suggestion (fewer than 3 events, or the average outside the range)
\* recommends the table's value.
C23_AverageReplacesRecommended ==
    \A t \in Threads :
        Suggested(t) =>
            LET n == Len(HistoryOfReptile) - 1
                total == DeltaSum(Len(HistoryOfReptile))
                r == requests[t].suggestion.recommended_interval
                entry == get_feeding_interval(requests[t].species,
                                              requests[t].date_of_birth, now)
            IN  /\ requests[t].suggestion.min_days = entry[1]
                /\ requests[t].suggestion.max_days = entry[2]
                /\ IF AverageAccepted(t)
                   THEN /\ 2 * (r * n - total) <= n
                        /\ 2 * (total - r * n) <= n
                   ELSE r = entry[3]

\* C23 witness: events 6, 7 and 8 days apart and the range [5, 7] of a
\* hatchling python: 7 is recommended, not the table's 5
C23_Witness ==
    \E t \in Threads :
        /\ Suggested(t)
        /\ Len(HistoryOfReptile) = 4
        /\ DeltaSum(4) = 21
        /\ requests[t].suggestion.min_days = 5
        /\ requests[t].suggestion.max_days = 7
        /\ get_feeding_interval(requests[t].species, requests[t].date_of_birth, now)[3] = 5
        /\ requests[t].suggestion.recommended_interval = 7

\* C24: every suggestion computed from a feeding history has confidence
\* "high" if the history has at least 3 events and their average day-delta
\* lies in [min, max], and confidence "medium" otherwise.
C24_HighConfidenceIffAverageAccepted ==
    \A t \in Threads :
        Suggested(t) =>
            requests[t].suggestion.confidence
                = IF AverageAccepted(t) THEN "high" ELSE "medium"

\* C25: every suggestion computed from a feeding history has days_until equal
\* to the number of days from today's date to the suggested date, at any time
\* of day, and the status that follows from it: overdue below 0, today at 0,
\* tomorrow at 1, soon at 2, scheduled above.
C25_DaysUntilIsCalendarDifference ==
    \A t \in Threads :
        Suggested(t) =>
            LET days == DateOrd(requests[t].suggestion.suggested_date) - now
            IN  /\ requests[t].suggestion.days_until = days
                /\ requests[t].suggestion.status
                     = CASE days < 0 -> "overdue"
                         [] days = 0 -> "today"
                         [] days = 1 -> "tomorrow"
                         [] days = 2 -> "soon"
                         [] OTHER    -> "scheduled"

(***************************************************************************)
(* A scheduled run next to feeding requests                                *)
(***************************************************************************)
\* fed animals, the settings saved with email on, no run and no request
\* under way
InitRun ==
    /\ reptiles = 1..MaxAnimals
    /\ feeding_reminders = FedReminders(MaxAnimals)
    /\ feeding_logs = FedLogs(MaxAnimals)
    /\ food_inventory = StockedLedger(1).inv
    /\ inventory_transactions = StockedLedger(1).txs
    /\ sqlite_sequence = [reptiles |-> MaxAnimals, feeding_reminders |-> MaxAnimals,
                          feeding_logs |-> MaxAnimals, food_inventory |-> 1]
    /\ now = StartOrd
    /\ notification_settings \in {s \in SettingsRows : s.email_enabled /\ ~ s.sms_enabled}
    /\ requests = [t \in Threads |-> IdleRequest]
    /\ scheduler = IdleScheduler
    /\ outbox = <<>>

\* the statements of check_and_send_reminders and of the feeding requests,
\* each on its own connection, in any order
NextRun ==
    \/ start_check
    \/ query_overdue
    \/ query_upcoming
    \/ send_notification(TRUE, TRUE, TRUE)
    \/ \E t \in Threads, r \in AnimalIds : receive_log_feeding(t, r, NoDate, None, 1, TRUE)
    \/ \E t \in Threads : insert_feeding_log(t)
    \/ \E t \in Threads : select_reminder(t)
    \/ \E t \in Threads : update_reminder(t)

SpecRun == InitRun /\ [][NextRun]_vars

\* C26: in every state of a run, the list the run dispatches names no
\* reminder twice, whatever feeding requests commit between its queries.
C26_RunNotifiesEachReminderOnce ==
    \A i \in 1..Len(scheduler.to_notify), j \in 1..Len(scheduler.to_notify) :
        i < j => scheduler.to_notify[i].row.id # scheduler.to_notify[j].row.id

(***************************************************************************)
(* Termination of the shopping list                                        *)
(***************************************************************************)
\* reminders made by the form and by a restore, then given a food and a
\* feeding, and the shopping list asked for
NextTermination ==
    \/ add_reptile
    \/ \E r \in ReptileIds, n \in Intervals : set_feeding_reminder(r, n)
    \/ \E m \in {"merge", "replace"}, ns \in BackupReminders : restore_data(m, <<>>, ns)
    \/ \E r \in ReptileIds : upgrade_food(r, "Rat", "Large", 1)
    \/ \E r \in ReptileIds : log_feeding(r, NoDate, None, 1, TRUE)
    \/ \E t \in Threads, H \in Horizons : shopping_list(t, H)
    \/ Tick

SpecTermination == Init /\ [][NextTermination]_vars

\* C27: no shopping-list request is left in the while loop of
\* get_shopping_list: for every reachable reminder store and every horizon
\* the stepping by feeding_interval_days gets past the end of the horizon.
C27_ShoppingListTerminates ==
    \A t \in Threads : requests[t].pc # "looping"

(***************************************************************************)
(* One debit per feeding                                                   *)
(***************************************************************************)
\* feedings with and without a SKU, eaten and refused, next to the requests
\* that remove a SKU or switch a reminder off
NextOnce ==
    \/ \E r \in ReptileIds, k \in PostedSkuIds \cup {None}, q \in FedQuantities,
          a \in BOOLEAN : log_feeding(r, NoDate, k, q, a)
    \/ \E r \in ReptileIds : disable_feeding_reminder(r)
    \/ \E k \in SkuIds : delete_inventory_item(k)

SpecOnce == InitConcurrent /\ [][NextOnce]_vars

\* the feeding names a SKU that is in the inventory and the animal ate
Debits(k, a) == a /\ k # None /\ get_food_item(food_inventory, k) # 0

BackdatedFeedingDates == {NoDate, StrfDate(StartOrd - 1)}

\* every other request has been answered
Alone(t) == \A u \in Threads \ {t} : requests[u].pc \in {"idle", "done"}

\* POST /feeding/add up to the call of add_feeding_log, received when the
\* feeding request before it has been answered
add_feeding(t, reptile_id, date) ==
    /\ Alone(t)
    /\ receive_log_feeding(t, reptile_id, date, None, 1, TRUE)

\* feedings recorded one after the other, each handled to its end before the
\* next is received
NextBackdated ==
    \/ \E t \in Threads, r \in ReptileIds, d \in BackdatedFeedingDates : add_feeding(t, r, d)
    \/ \E t \in Threads : insert_feeding_log(t)
    \/ \E t \in Threads : select_reminder(t)
    \/ \E t \in Threads : update_reminder(t)
    \/ Tick

SpecBackdated == InitConcurrent /\ [][NextBackdated]_vars

\* the days of the feedings recorded for an animal
FedDays(reptile_id) ==
    {DateOrd(feeding_logs[j].feeding_date) :
        j \in {x \in 1..Len(feeding_logs) : feeding_logs[x].reptile_id = reptile_id}}

LatestOf(S) == CHOOSE x \in S : \A y \in S : y <= x

\* C29: when no feeding request is under way, the active reminder of every
\* animal with recorded feedings has the latest of their dates as
\* last_fed_date, and that date plus the interval as next_feeding_date.
C29_LastFedIsLatestFeeding ==
    (\A t \in Threads : requests[t].pc \in {"idle", "done"}) =>
        \A i \in 1..Len(feeding_reminders) :
            LET rem == feeding_reminders[i]
            IN  (rem.is_active /\ FedDays(rem.reptile_id) # {}) =>
                    /\ rem.last_fed_date # NULL
                    /\ DateOrd(rem.last_fed_date) = LatestOf(FedDays(rem.reptile_id))
                    /\ rem.next_feeding_date
                         = StrfDate(LatestOf(FedDays(rem.reptile_id))
                                    + rem.feeding_interval_days)

\* C30: a set-reminder request for an animal that has a reminder stores the
\* new interval in that record and makes it active, leaves its food type,
\* food size, quantity_per_feeding and last_fed_date as they were, leaves
\* the other records alone and adds no record.
C30_SetReminderChangesIntervalOnly ==
    [][\A r \in ReptileIds, n \in {1, 2} :
          (RowsFor(feeding_reminders, r) # {} /\ set_feeding_reminder(r, n)) =>
             /\ Len(feeding_reminders') = Len(feeding_reminders)
             /\ \A i \in 1..Len(feeding_reminders) :
                   IF feeding_reminders[i].reptile_id = r
                   THEN /\ feeding_reminders'[i].feeding_interval_days = n
                        /\ feeding_reminders'[i].is_active
                        /\ feeding_reminders'[i].id = feeding_reminders[i].id
                        /\ feeding_reminders'[i].food_type = feeding_reminders[i].food_type
                        /\ feeding_reminders'[i].food_size = feeding_reminders[i].food_size
                        /\ feeding_reminders'[i].quantity_per_feeding
                             = feeding_reminders[i].quantity_per_feeding
                        /\ feeding_reminders'[i].last_fed_date
                             = feeding_reminders[i].last_fed_date
                   ELSE feeding_reminders'[i] = feeding_reminders[i]]_vars

====
